---- MODULE Spec2Model ----
(***************************************************************************)
(* A model of the FPL optimizer pipeline: the integer-programming team     *)
(* selection of src/src/optimizer.py, the Composite Player Viability       *)
(* scorer of src/src/cpv.py and the strategy overlay of                    *)
(* src/src/strategies.py.                                                  *)
(*                                                                         *)
(* Numbers.  Costs, budgets and scores are integers in the unit the caller *)
(* uses; an uncertainty margin is an integer number of percent, so the     *)
(* robust coefficient score*(1 - margin) is kept in hundredths of a point. *)
(* The CPV and the strategy overlay compute with exact rationals <<n, d>>; *)
(* floating-point rounding is not modelled.                                *)
(*                                                                         *)
(* None is the empty sequence <<>>, a present value v is <<v>>.            *)
(***************************************************************************)
EXTENDS Integers, Sequences, FiniteSets, TLC

VARIABLES
    players_df,       \* the catalog handed to the optimizers: id -> row
    expected_points,  \* the score map handed to the optimizers: id -> score
    budget,           \* the budget handed to the optimizers
    opt,              \* the FPLOptimizer instances: instance -> object state
    last,             \* the call that returned last, and what it returned
    sc,               \* branching state of the solver on the 30-player scenario
    cpv,              \* CPVCalculator: its inputs and what calculate_all gave
    strat,            \* StrategyOverlay.apply_strategy: inputs and output
    tr,               \* suggest_transfers: inputs and output
    fixtures,         \* get_next_fixture_difficulty: the fixture list and the map
    forecast,         \* the forecasting step of optimize_gameweek: inputs and map
    results           \* the results file and the save_gameweek_result calls

vars == <<players_df, expected_points, budget, opt, last, sc, cpv, strat, tr,
          fixtures, forecast, results>>

None == <<>>
Some(v) == <<v>>

\* ------------------------------------------------------------------------
\* Bounds of the model
\* ------------------------------------------------------------------------
MaxPlayers == 12

\* ------------------------------------------------------------------------
\* src/src/config.py
\* ------------------------------------------------------------------------
STARTING_11_BUDGET == 100
STARTING_11_SIZE == 11
MIN_GOALKEEPERS == 1
MAX_GOALKEEPERS == 1
MIN_DEFENDERS == 3
MAX_DEFENDERS == 5
MIN_MIDFIELDERS == 3
MAX_MIDFIELDERS == 5
MIN_FORWARDS == 1
MAX_FORWARDS == 3
MAX_PLAYERS_PER_TEAM == 3
\* DEFAULT_UNCERTAINTY_MARGIN = 0.2, in percent
DEFAULT_UNCERTAINTY_MARGIN == 20

Positions == {"GKP", "DEF", "MID", "FWD"}

\* ------------------------------------------------------------------------
\* Arithmetic helpers
\* ------------------------------------------------------------------------
RECURSIVE Sum(_, _)
\* pandas .sum() / pulp.lpSum of the column f over the rows S
Sum(f, S) ==
    IF S = {} THEN 0
    ELSE LET p == CHOOSE q \in S : TRUE IN f[p] + Sum(f, S \ {p})

RECURSIVE MaxOf(_)
\* the largest member of a non-empty set of integers
MaxOf(S) ==
    LET p == CHOOSE q \in S : TRUE
    IN  IF S = {p} THEN p
        ELSE LET r == MaxOf(S \ {p}) IN IF p > r THEN p ELSE r

Abs(x) == IF x < 0 THEN -x ELSE x

RECURSIVE GCD(_, _)
GCD(a, b) == IF b = 0 THEN a ELSE GCD(b, a % b)

\* the fraction n/d (d # 0) in lowest terms with a positive denominator
Rat(n, d) ==
    LET g == GCD(Abs(n), Abs(d))
        s == IF d < 0 THEN -1 ELSE 1
    IN  <<(s * n) \div g, (s * d) \div g>>

RInt(k) == <<k, 1>>
RAdd(a, b) == Rat(a[1] * b[2] + b[1] * a[2], a[2] * b[2])
RSub(a, b) == Rat(a[1] * b[2] - b[1] * a[2], a[2] * b[2])
RMul(a, b) == Rat(a[1] * b[1], a[2] * b[2])
RDiv(a, b) == Rat(a[1] * b[2], a[2] * b[1])
RLess(a, b) == a[1] * b[2] < b[1] * a[2]
RLeq(a, b) == a[1] * b[2] <= b[1] * a[2]
RMin(a, b) == IF RLess(b, a) THEN b ELSE a
RMax(a, b) == IF RLess(a, b) THEN b ELSE a

RECURSIVE SmallSubsets(_, _)
\* the subsets of S that have exactly k members, built member by member
SmallSubsets(S, k) ==
    IF k = 0 THEN {{}}
    ELSE IF S = {} THEN {}
    ELSE LET p == CHOOSE q \in S : TRUE
         IN  SmallSubsets(S \ {p}, k) \cup
             {T \cup {p} : T \in SmallSubsets(S \ {p}, k - 1)}

\* the subsets of S that have exactly k members; for a k above half of S
\* they are the complements of the subsets with Cardinality(S) - k members
KSubsets(S, k) ==
    IF k < 0 \/ k > Cardinality(S) THEN {}
    ELSE IF 2 * k > Cardinality(S)
         THEN {S \ T : T \in SmallSubsets(S, Cardinality(S) - k)}
         ELSE SmallSubsets(S, k)

\* ------------------------------------------------------------------------
\* FPLOptimizer.__init__
\* ------------------------------------------------------------------------
\* players_df['expected_points'] = players_df['id'].map(expected_points).fillna(0)
ExpectedPointsColumn(df, xp) ==
    [p \in DOMAIN df |-> IF p \in DOMAIN xp THEN xp[p] ELSE 0]

\* the lower bound with the margin added instead of taken off
PointsLowerColumn_added(df, xp, margin) ==
    [p \in DOMAIN df |-> ExpectedPointsColumn(df, xp)[p] * (100 + margin)]

\* players_df['points_lower'] = expected_points * (1 - uncertainty_margin),
\* in hundredths of a point (margin in percent)
PointsLowerColumn(df, xp, margin) ==
    [p \in DOMAIN df |-> ExpectedPointsColumn(df, xp)[p] * (100 - margin)]

\* players_df['points_upper'] = expected_points * (1 + uncertainty_margin),
\* in hundredths of a point
PointsUpperColumn(df, xp, margin) ==
    [p \in DOMAIN df |-> ExpectedPointsColumn(df, xp)[p] * (100 + margin)]

\* budget: float = STARTING_11_BUDGET; the argument is None when left out
BudgetParameter(budget_arg) ==
    IF budget_arg = None THEN STARTING_11_BUDGET ELSE budget_arg[1]

\* uncertainty_margin: float = DEFAULT_UNCERTAINTY_MARGIN
MarginParameter(margin_arg) ==
    IF margin_arg = None THEN DEFAULT_UNCERTAINTY_MARGIN ELSE margin_arg[1]

\* self.players_df bound to the caller's table itself (None stands for it)
players_df_shared(df) == None

\* self.players_df = players_df.copy(): a table of the object's own
players_df_copy(df) == Some(df)

\* the table after the column assignments of lines 55-60
WithColumns(df, xp, robust, margin) ==
    [p \in DOMAIN df |->
        IF robust
        THEN [expected_points |-> ExpectedPointsColumn(df, xp)[p],
              points_lower |-> PointsLowerColumn(df, xp, margin)[p],
              points_upper |-> PointsUpperColumn(df, xp, margin)[p]] @@ df[p]
        ELSE [expected_points |-> ExpectedPointsColumn(df, xp)[p]] @@ df[p]]

\* FPLOptimizer.__init__ on the caller's table df: the new object (self) and
\* the caller's table as the call leaves it (players_df).  budget_arg and
\* margin_arg record the arguments as they were given.
NewOptimizer(df, xp, budget_arg, robust, margin_arg) ==
    LET own   == players_df_copy(df)
        table == WithColumns(df, xp, robust, MarginParameter(margin_arg))
    IN  [self |-> [players_df |-> IF own = None THEN None ELSE Some(table),
                   robust |-> robust,
                   uncertainty_margin |-> MarginParameter(margin_arg),
                   budget_arg |-> budget_arg, margin_arg |-> margin_arg,
                   problem |-> None, solution |-> None,
                   asked_include |-> {}, asked_exclude |-> {}],
         players_df |-> IF own = None THEN table ELSE df]

\* ------------------------------------------------------------------------
\* FPLOptimizer.build_model: the rows of the integer program.  An assignment
\* is <<S, Y>>: S the ids whose player variable is 1, Y the ids whose
\* captain variable is 1.
\* ------------------------------------------------------------------------
\* the objective coefficient of a player, read from points_upper in robust
\* mode
ObjectiveCoefficients_upper(df, o) ==
    [p \in DOMAIN df |-> IF o.robust THEN df[p].points_upper
                         ELSE df[p].expected_points]

\* the objective coefficient of a player: points_lower in robust mode,
\* expected_points otherwise
ObjectiveCoefficients(df, o) ==
    [p \in DOMAIN df |-> IF o.robust THEN df[p].points_lower
                         ELSE df[p].expected_points]

\* the objective without the captain's second count
Objective_captain_once(df, o, S, Y) ==
    Sum(ObjectiveCoefficients(df, o), S)

\* lpSum(coef[pid] * (player_vars[pid] + captain_vars[pid]))
Objective(df, o, S, Y) ==
    LET coef == ObjectiveCoefficients(df, o)
    IN  Sum(coef, S) + Sum(coef, Y)

Exactly_11_Players(S) == Cardinality(S) = STARTING_11_SIZE

\* the budget row with the configured default in place of the budget given
Budget_Constraint_default(df, b, S) ==
    Sum([p \in DOMAIN df |-> df[p].cost], S) <= STARTING_11_BUDGET

Budget_Constraint(df, b, S) ==
    Sum([p \in DOMAIN df |-> df[p].cost], S) <= b

Exactly_One_Captain(Y) == Cardinality(Y) = 1

Captain_Must_Be_Selected(S, Y) == Y \subseteq S

PositionCount(df, S, pos) == Cardinality({p \in S : df[p].position = pos})

Formation_Constraints(df, S) ==
    LET gk  == PositionCount(df, S, "GKP")
        def == PositionCount(df, S, "DEF")
        mid == PositionCount(df, S, "MID")
        fwd == PositionCount(df, S, "FWD")
    IN  /\ gk >= MIN_GOALKEEPERS
        /\ gk <= MAX_GOALKEEPERS
        /\ def >= MIN_DEFENDERS
        /\ def <= MAX_DEFENDERS
        /\ mid >= MIN_MIDFIELDERS
        /\ mid <= MAX_MIDFIELDERS
        /\ fwd >= MIN_FORWARDS
        /\ fwd <= MAX_FORWARDS

\* the team row with a strict bound
Max_Players_Team_strict(df, S) ==
    \A t \in {df[p].team : p \in DOMAIN df} :
        Cardinality({p \in S : df[p].team = t}) < MAX_PLAYERS_PER_TEAM

Max_Players_Team(df, S) ==
    \A t \in {df[p].team : p \in DOMAIN df} :
        Cardinality({p \in S : df[p].team = t}) <= MAX_PLAYERS_PER_TEAM

\* the rows added by add_must_include_constraint / add_must_exclude_constraint
Must_Include_Exclude(prob, S) ==
    /\ prob.must_include \subseteq S
    /\ prob.must_exclude \cap S = {}

\* self.problem right after build_model: the base rows, no added row
BuiltProblem == [must_include |-> {}, must_exclude |-> {}]

\* the values of the binary player variables the solver has to look at: a
\* set of ids of another size fails Exactly_11_Players whatever else holds
PlayerVarValues(df) == KSubsets(DOMAIN df, STARTING_11_SIZE)

\* the values of the binary captain variables the solver has to look at: with
\* two or more set, Exactly_One_Captain fails whatever else holds
CaptainVarValues(df) == {{}} \cup {{c} : c \in DOMAIN df}

SelectionFeasible(df, b, prob, S) ==
    /\ Exactly_11_Players(S)
    /\ Budget_Constraint(df, b, S)
    /\ Formation_Constraints(df, S)
    /\ Max_Players_Team(df, S)
    /\ Must_Include_Exclude(prob, S)

\* the assignments that satisfy every row of the problem
Feasible(df, b, prob) ==
    LET sel == {S \in PlayerVarValues(df) : SelectionFeasible(df, b, prob, S)}
    IN  {a \in sel \X CaptainVarValues(df) :
            /\ Exactly_One_Captain(a[2])
            /\ Captain_Must_Be_Selected(a[1], a[2])}

\* a solver that stops at the first feasible assignment it meets
SolverOptima_feasible(df, b, o, prob) == Feasible(df, b, prob)

\* self.problem.solve(pulp.PULP_CBC_CMD(msg=0)): the solver ends with status
\* Optimal at an assignment of maximal objective, any of them, and with
\* another status when no assignment is feasible (the set is then empty)
SolverOptima(df, b, o, prob) ==
    LET F      == Feasible(df, b, prob)
        valued == {<<a, Objective(df, o, a[1], a[2])>> : a \in F}
        best   == MaxOf({v[2] : v \in valued})
    IN  IF F = {} THEN {}
        ELSE {v[1] : v \in {w \in valued : w[2] = best}}

\* FPLOptimizer._get_formation: "{def_count}-{mid}-{fwd}"
GetFormation(df, S) ==
    ToString(PositionCount(df, S, "DEF")) \o "-" \o
    ToString(PositionCount(df, S, "MID")) \o "-" \o
    ToString(PositionCount(df, S, "FWD"))

\* the solution dictionary with the objective value reported as the total score
ExtractSolution_objective(df, b, o, a) ==
    LET selected_player_ids == a[1]
        captain_id == CHOOSE c \in a[2] : TRUE
        ep == [p \in DOMAIN df |-> df[p].expected_points]
        total_cost == Sum([p \in DOMAIN df |-> df[p].cost], selected_player_ids)
        is_captain == {p \in selected_player_ids : p = captain_id}
        captain_bonus == ep[CHOOSE p \in is_captain : TRUE]
    IN  [status |-> "Optimal",
         selected_players |-> selected_player_ids,
         is_captain |-> is_captain,
         captain_id |-> captain_id,
         total_cost |-> total_cost,
         budget_remaining |-> b - total_cost,
         expected_points |-> Objective(df, o, a[1], a[2]),
         formation |-> GetFormation(df, selected_player_ids),
         objective_value |-> Objective(df, o, a[1], a[2])]

\* FPLOptimizer.solve, lines 205-241: the solution dictionary read off the
\* solver's assignment
ExtractSolution(df, b, o, a) ==
    LET selected_player_ids == a[1]
        captain_id == CHOOSE c \in a[2] : TRUE
        ep == [p \in DOMAIN df |-> df[p].expected_points]
        total_cost == Sum([p \in DOMAIN df |-> df[p].cost], selected_player_ids)
        is_captain == {p \in selected_player_ids : p = captain_id}
        captain_bonus == ep[CHOOSE p \in is_captain : TRUE]
    IN  [status |-> "Optimal",
         selected_players |-> selected_player_ids,
         is_captain |-> is_captain,
         captain_id |-> captain_id,
         total_cost |-> total_cost,
         budget_remaining |-> b - total_cost,
         expected_points |-> Sum(ep, selected_player_ids) + captain_bonus,
         formation |-> GetFormation(df, selected_player_ids),
         objective_value |-> Objective(df, o, a[1], a[2])]

\* ------------------------------------------------------------------------
\* The optimizer's operations.  opt maps each FPLOptimizer object to its
\* state; all objects are built from the same catalog, score map and budget.
\* ------------------------------------------------------------------------
Returned(op, i, ret) == [op |-> op, inst |-> i, ret |-> ret]

\* self.players_df of object o: its own table, or the caller's
OwnTable(o) == IF o.players_df = None THEN players_df ELSE o.players_df[1]

\* self.problem after "if self.problem is None: self.build_model()"
EnsureBuilt(o) == IF o.problem = None THEN BuiltProblem ELSE o.problem[1]

\* FPLOptimizer.build_model: a fresh LpProblem with the base rows
BuildModel(i) ==
    /\ i \in DOMAIN opt
    /\ opt' = [opt EXCEPT ![i].problem = Some(BuiltProblem)]
    /\ last' = Returned("build_model", i, None)
    /\ UNCHANGED <<players_df, expected_points, budget, sc, cpv, strat, tr,
                 fixtures, forecast, results>>

\* FPLOptimizer.add_must_include_constraint(player_ids): builds the model if
\* there is none, then one row per id that has a player variable.  Called at
\* most once per object (pulp names the row after the id).
AddMustInclude(i, player_ids) ==
    /\ i \in DOMAIN opt
    /\ opt[i].asked_include = {}
    /\ LET prob == EnsureBuilt(opt[i])
           rows == {pid \in player_ids : pid \in DOMAIN OwnTable(opt[i])}
       IN  opt' = [opt EXCEPT
                     ![i].problem = Some([prob EXCEPT !.must_include = @ \cup rows]),
                     ![i].asked_include = @ \cup player_ids]
    /\ last' = Returned("add_must_include_constraint", i, None)
    /\ UNCHANGED <<players_df, expected_points, budget, sc, cpv, strat, tr,
                 fixtures, forecast, results>>

\* FPLOptimizer.add_must_exclude_constraint(player_ids)
AddMustExclude(i, player_ids) ==
    /\ i \in DOMAIN opt
    /\ opt[i].asked_exclude = {}
    /\ LET prob == EnsureBuilt(opt[i])
           rows == {pid \in player_ids : pid \in DOMAIN OwnTable(opt[i])}
       IN  opt' = [opt EXCEPT
                     ![i].problem = Some([prob EXCEPT !.must_exclude = @ \cup rows]),
                     ![i].asked_exclude = @ \cup player_ids]
    /\ last' = Returned("add_must_exclude_constraint", i, None)
    /\ UNCHANGED <<players_df, expected_points, budget, sc, cpv, strat, tr,
                 fixtures, forecast, results>>

\* the object after a solve whose status is not Optimal, with self.solution
\* reset
NotOptimal_reset(o, prob) == [o EXCEPT !.problem = Some(prob), !.solution = None]

\* the object after a solve whose status is not Optimal: the early return
\* assigns nothing but the model built on the way
NotOptimal(o, prob) == [o EXCEPT !.problem = Some(prob)]

\* FPLOptimizer.solve: builds the model if there is none and runs the solver.
\* Status not Optimal: None is returned and self.solution is not assigned.
\* Status Optimal: self.solution is the dictionary read off the assignment,
\* and is returned.
Solve(i) ==
    /\ i \in DOMAIN opt
    /\ LET prob   == EnsureBuilt(opt[i])
           optima == SolverOptima(OwnTable(opt[i]), budget, opt[i], prob)
       IN  IF optima = {}
           THEN /\ opt' = [opt EXCEPT ![i] = NotOptimal(opt[i], prob)]
                /\ last' = Returned("solve", i, None)
           ELSE \E a \in optima :
                  LET solution == ExtractSolution(OwnTable(opt[i]), budget, opt[i], a)
                  IN  /\ opt' = [opt EXCEPT ![i].problem = Some(prob),
                                            ![i].solution = Some(solution)]
                      /\ last' = Returned("solve", i, Some(solution))
    /\ UNCHANGED <<players_df, expected_points, budget, sc, cpv, strat, tr,
                 fixtures, forecast, results>>

\* ------------------------------------------------------------------------
\* Inputs of the optimizer runs
\* ------------------------------------------------------------------------
\* position of row i when the catalog lists lay[1] goalkeepers, then lay[2]
\* defenders, then lay[3] midfielders, then forwards
PositionOfRow(i, lay) ==
    IF i <= lay[1] THEN "GKP"
    ELSE IF i <= lay[1] + lay[2] THEN "DEF"
    ELSE IF i <= lay[1] + lay[2] + lay[3] THEN "MID"
    ELSE "FWD"

Layouts == {<<2, 4, 3>>, <<1, 6, 3>>}

\* team of row i: the first `shared` rows are team-mates, every other row
\* has a team of its own
TeamOfRow(i, shared) == IF i <= shared THEN 1 ELSE i

TeamShares == {MAX_PLAYERS_PER_TEAM, MAX_PLAYERS_PER_TEAM + 1}

\* cost of row i, cycling through four prices
CostOfRow(i) == 4 + (i % 4)

Catalog(n, lay, shared) ==
    [i \in 1..n |-> [position |-> PositionOfRow(i, lay),
                     team |-> TeamOfRow(i, shared),
                     cost |-> CostOfRow(i)]]

Catalogs ==
    {Catalog(n, lay, shared) :
        n \in (MaxPlayers - 2)..MaxPlayers, lay \in Layouts, shared \in TeamShares}

\* the budget argument: left out, 0, 60
BudgetArgs == {None, Some(0), Some(60)}

\* score maps: a score per id where ids tie in pairs, and a map that misses
\* some catalog ids and has an id the catalog does not have
ScoreMaps(n) ==
    { [i \in 1..n |-> (i + 1) \div 2],
      [i \in ({k \in 1..n : k % 3 # 0} \cup {n + 5}) |-> (i * 7) % 11] }

\* the uncertainty_margin argument: left out, 0.5, 1.5
MarginArgs == {None, Some(50), Some(150)}

IncludeArgs == {{2, MaxPlayers + 5}}
ExcludeArgs == {{2}, {MaxPlayers - 1}}

IdleScenario == [k |-> 0]
IdleCPV == <<>>
IdleStrategy == [k |-> 0]
IdleTransfers == [k |-> 0]
IdleFixtures == [k |-> 0]
IdleForecast == [k |-> 0]
IdleResults == [k |-> 0]

\* One optimizer, deterministic or robust with the default margin
Init ==
    /\ \E df \in Catalogs, budget_arg \in BudgetArgs, robust \in BOOLEAN :
          \E xp \in ScoreMaps(Cardinality(DOMAIN df)) :
             LET new == NewOptimizer(df, xp, budget_arg, robust, None)
             IN  /\ players_df = new.players_df
                 /\ expected_points = xp
                 /\ budget = BudgetParameter(budget_arg)
                 /\ opt = <<new.self>>
    /\ last = Returned("__init__", 1, None)
    /\ sc = IdleScenario
    /\ cpv = IdleCPV
    /\ strat = IdleStrategy
    /\ tr = IdleTransfers
    /\ fixtures = IdleFixtures
    /\ forecast = IdleForecast
    /\ results = IdleResults

Next ==
    \/ BuildModel(1)
    \/ \E ids \in IncludeArgs : AddMustInclude(1, ids)
    \/ \E ids \in ExcludeArgs : AddMustExclude(1, ids)
    \/ Solve(1)

Spec == Init /\ [][Next]_vars

\* Two optimizers side by side on the same inputs: object 1 deterministic,
\* object 2 robust
InitPair ==
    /\ \E df \in Catalogs, budget_arg \in BudgetArgs, margin_arg \in MarginArgs :
          \E xp \in ScoreMaps(Cardinality(DOMAIN df)) :
             LET first  == NewOptimizer(df, xp, budget_arg, FALSE, None)
                 second == NewOptimizer(first.players_df, xp, budget_arg, TRUE, margin_arg)
             IN  /\ players_df = second.players_df
                 /\ expected_points = xp
                 /\ budget = BudgetParameter(budget_arg)
                 /\ opt = <<first.self, second.self>>
    /\ last = Returned("__init__", 2, None)
    /\ sc = IdleScenario
    /\ cpv = IdleCPV
    /\ strat = IdleStrategy
    /\ tr = IdleTransfers
    /\ fixtures = IdleFixtures
    /\ forecast = IdleForecast
    /\ results = IdleResults

NextPair ==
    \E i \in {1, 2} :
        \/ BuildModel(i)
        \/ Solve(i)

SpecPair == InitPair /\ [][NextPair]_vars

\* ------------------------------------------------------------------------
\* What the claims about the optimizer speak of, stated from the catalog,
\* the score map and the budget alone
\* ------------------------------------------------------------------------
\* a player's score: the value in the score map, 0 for an id it lacks
ScoreOf(p) == IF p \in DOMAIN expected_points THEN expected_points[p] ELSE 0

NumberAt(S, pos) == Cardinality({p \in S : players_df[p].position = pos})

CostOfRoster(S) == Sum([p \in DOMAIN players_df |-> players_df[p].cost], S)

\* the roster invariants: 11 players, 1 GK, 3-5 DEF, 3-5 MID, 1-3 FWD, cost
\* within the budget, at most 3 of a team
RosterInvariants(S) ==
    /\ S \subseteq DOMAIN players_df
    /\ Cardinality(S) = 11
    /\ NumberAt(S, "GKP") = 1
    /\ NumberAt(S, "DEF") \in 3..5
    /\ NumberAt(S, "MID") \in 3..5
    /\ NumberAt(S, "FWD") \in 1..3
    /\ CostOfRoster(S) <= budget
    /\ \A p \in S : Cardinality({q \in S : players_df[q].team = players_df[p].team}) <= 3

\* the total of a roster with its captain: every score once, the captain's twice
PointTotal(S, c) == Sum([p \in DOMAIN players_df |-> ScoreOf(p)], S) + ScoreOf(c)

\* the rows object i has in its problem: forced in, forced out
ForcedIn(i) == IF opt[i].problem = None THEN {} ELSE opt[i].problem[1].must_include
ForcedOut(i) == IF opt[i].problem = None THEN {} ELSE opt[i].problem[1].must_exclude

\* the rosters that satisfy every constraint object i solves under
LegalRosters(i) ==
    {S \in SUBSET DOMAIN players_df :
        /\ Cardinality(S) = 11
        /\ RosterInvariants(S)
        /\ ForcedIn(i) \subseteq S
        /\ ForcedOut(i) \cap S = {}}

SolveReturned == last.op = "solve"
SolveReturnedRoster == last.op = "solve" /\ last.ret # None

\* C1: every roster solve() returns, and every roster an optimizer holds as
\* its solution, has exactly 11 players, 1 goalkeeper, 3 to 5 defenders, 3 to
\* 5 midfielders, 1 to 3 forwards, a cost within the budget, at most 3
\* players of a team, and exactly one captain, who is one of the 11.
C1_RosterInvariants ==
    \A i \in DOMAIN opt :
        opt[i].solution # None =>
            LET sol == opt[i].solution[1]
            IN  /\ RosterInvariants(sol.selected_players)
                /\ Cardinality(sol.is_captain) = 1
                /\ sol.is_captain = {sol.captain_id}
                /\ sol.captain_id \in sol.selected_players

\* C1 witness: solve() returned a roster from a catalog with more than 11
\* players, under a budget that leaves less than one unit
C1_Witness ==
    /\ SolveReturnedRoster
    /\ Cardinality(DOMAIN players_df) > 11
    /\ last.ret[1].budget_remaining = 0

\* C2: in deterministic mode no roster and captain that satisfy every
\* constraint of the problem total more than the roster and captain that
\* solve() returned (each selected score once, the captain's twice).
C2_DeterministicOptimal ==
    (SolveReturnedRoster /\ ~opt[last.inst].robust) =>
        LET sol == last.ret[1]
        IN  \A S \in LegalRosters(last.inst) : \A c \in S :
                PointTotal(S, c) <= PointTotal(sol.selected_players, sol.captain_id)

\* C2 witness: a deterministic solve() returned a roster while another legal
\* roster with a strictly smaller total exists
C2_Witness ==
    /\ SolveReturnedRoster
    /\ ~opt[last.inst].robust
    /\ \E S \in LegalRosters(last.inst) : \E c \in S :
          PointTotal(S, c) <
              PointTotal(last.ret[1].selected_players, last.ret[1].captain_id)

\* C3: solve() returns None exactly when no roster satisfies all the
\* constraints of the problem; what it returns otherwise is a roster that
\* satisfies them.
C3_NoneIffInfeasible ==
    SolveReturned =>
        /\ (last.ret = None) <=> (LegalRosters(last.inst) = {})
        /\ last.ret # None =>
              last.ret[1].selected_players \in LegalRosters(last.inst)

\* C3 witness: solve() returned None on a catalog of at least 11 players with
\* a budget above 0
C3_Witness ==
    /\ SolveReturned
    /\ last.ret = None
    /\ Cardinality(DOMAIN players_df) >= 11
    /\ budget > 0

\* C5: after add_must_include_constraint(I) and add_must_exclude_constraint(E)
\* every roster solve() returns holds every catalog player of I and no player
\* of E, and satisfies the roster invariants.
C5_ForcedPlayersHonoured ==
    SolveReturnedRoster =>
        LET o   == opt[last.inst]
            sol == last.ret[1]
        IN  /\ (o.asked_include \cap DOMAIN players_df) \subseteq sol.selected_players
            /\ o.asked_exclude \cap sol.selected_players = {}
            /\ RosterInvariants(sol.selected_players)

\* C6: the roster of the robust optimizer (margin above 0), re-scored with the
\* point-estimate scores, totals no more than the roster of the deterministic
\* optimizer on the same catalog, scores and budget.
C6_RobustNotAboveDeterministic ==
    (/\ DOMAIN opt = {1, 2}
     /\ ~opt[1].robust /\ opt[2].robust /\ opt[2].uncertainty_margin > 0
     /\ opt[1].solution # None /\ opt[2].solution # None) =>
        LET det == opt[1].solution[1]
            rob == opt[2].solution[1]
        IN  PointTotal(rob.selected_players, rob.captain_id)
                <= PointTotal(det.selected_players, det.captain_id)

\* C6 witness: both optimizers hold a roster and the robust one totals
\* strictly less
C6_Witness ==
    /\ DOMAIN opt = {1, 2}
    /\ ~opt[1].robust /\ opt[2].robust /\ opt[2].uncertainty_margin > 0
    /\ opt[1].solution # None /\ opt[2].solution # None
    /\ PointTotal(opt[2].solution[1].selected_players, opt[2].solution[1].captain_id)
         < PointTotal(opt[1].solution[1].selected_players, opt[1].solution[1].captain_id)

\* ------------------------------------------------------------------------
\* The solver on the 30-player scenario.  The catalog is too large to list
\* its rosters, so the solver's search is followed step by step: it fixes the
\* binary variables of one catalog row after the other, and sc holds the
\* activity (left-hand side) of every row of build_model for the variables
\* fixed so far.  All coefficients are >= 0, so a row with an upper bound
\* that is exceeded stays exceeded and the branch is cut.  The rows of a team
\* are contiguous in the catalog, so only the row of the team being decided
\* is kept.  Of the variables themselves sc keeps the two of the watched id:
\* its player variable and its captain variable.  When all variables are
\* fixed and every row holds, the assignment is feasible; solve() returns a
\* feasible assignment of maximal objective.
\* ------------------------------------------------------------------------
ScenarioStart(watched) ==
    [k |-> 0, size |-> 0, cost |-> 0, captains |-> 0,
     gk |-> 0, def |-> 0, mid |-> 0, fwd |-> 0,
     team |-> 0, team_n |-> 0, objective |-> 0,
     watched |-> watched, player_var |-> 0, captain_var |-> 0]

\* the row activities with the captain's score counted twice on top of once
ScenarioFix_tripled(s, p, x, y) ==
    LET row  == OwnTable(opt[1])[p]
        coef == ObjectiveCoefficients(OwnTable(opt[1]), opt[1])[p]
    IN  [k |-> p,
         size |-> s.size + x,
         cost |-> s.cost + row.cost * x,
         captains |-> s.captains + y,
         gk  |-> s.gk  + (IF row.position = "GKP" THEN x ELSE 0),
         def |-> s.def + (IF row.position = "DEF" THEN x ELSE 0),
         mid |-> s.mid + (IF row.position = "MID" THEN x ELSE 0),
         fwd |-> s.fwd + (IF row.position = "FWD" THEN x ELSE 0),
         team |-> row.team,
         team_n |-> (IF row.team = s.team THEN s.team_n ELSE 0) + x,
         objective |-> s.objective + coef * (x + 2 * y),
         watched |-> s.watched,
         player_var |-> IF p = s.watched THEN x ELSE s.player_var,
         captain_var |-> IF p = s.watched THEN y ELSE s.captain_var]

\* the row activities after the variables of row p are fixed to x (player
\* variable) and y (captain variable), each 0 or 1
ScenarioFix(s, p, x, y) ==
    LET row  == OwnTable(opt[1])[p]
        coef == ObjectiveCoefficients(OwnTable(opt[1]), opt[1])[p]
    IN  [k |-> p,
         size |-> s.size + x,
         cost |-> s.cost + row.cost * x,
         captains |-> s.captains + y,
         gk  |-> s.gk  + (IF row.position = "GKP" THEN x ELSE 0),
         def |-> s.def + (IF row.position = "DEF" THEN x ELSE 0),
         mid |-> s.mid + (IF row.position = "MID" THEN x ELSE 0),
         fwd |-> s.fwd + (IF row.position = "FWD" THEN x ELSE 0),
         team |-> row.team,
         team_n |-> (IF row.team = s.team THEN s.team_n ELSE 0) + x,
         objective |-> s.objective + coef * (x + y),
         watched |-> s.watched,
         player_var |-> IF p = s.watched THEN x ELSE s.player_var,
         captain_var |-> IF p = s.watched THEN y ELSE s.captain_var]

\* no row with an upper bound is exceeded: Exactly_11_Players,
\* Budget_Constraint, Exactly_One_Captain, the Max_ rows of the formation,
\* Max_Players_Team
ScenarioUpperRows(s) ==
    /\ s.size <= STARTING_11_SIZE
    /\ s.cost <= budget
    /\ s.captains <= 1
    /\ s.gk <= MAX_GOALKEEPERS
    /\ s.def <= MAX_DEFENDERS
    /\ s.mid <= MAX_MIDFIELDERS
    /\ s.fwd <= MAX_FORWARDS
    /\ s.team_n <= MAX_PLAYERS_PER_TEAM

\* every variable is fixed
ScenarioComplete(s) == s.k = Cardinality(DOMAIN players_df)

\* all rows hold for a complete assignment
ScenarioFeasible(s) ==
    /\ ScenarioComplete(s)
    /\ ScenarioUpperRows(s)
    /\ s.size = STARTING_11_SIZE
    /\ s.captains = 1
    /\ s.gk >= MIN_GOALKEEPERS
    /\ s.def >= MIN_DEFENDERS
    /\ s.mid >= MIN_MIDFIELDERS
    /\ s.fwd >= MIN_FORWARDS

ScenarioStep(x, y) ==
    /\ ~ScenarioComplete(sc)
    /\ LET s == ScenarioFix(sc, sc.k + 1, x, y)
       IN  /\ ScenarioUpperRows(s)
           /\ sc' = s
    /\ UNCHANGED <<players_df, expected_points, budget, opt, last, cpv, strat, tr,
                 fixtures, forecast, results>>

\* player variable 0, and so captain variable 0 (Captain_Must_Be_Selected)
ScenarioLeaveOut == ScenarioStep(0, 0)
\* player variable 1, captain variable 0
ScenarioSelect == ScenarioStep(1, 0)
\* player variable 1, captain variable 1
ScenarioSelectCaptain == ScenarioStep(1, 1)

\* 4 GK, 10 DEF, 10 MID, 6 FWD at cost 5, in teams of `block` consecutive rows
ScenarioCatalog(block) ==
    [i \in 1..30 |-> [position |-> PositionOfRow(i, <<4, 10, 10>>),
                      team |-> ((i - 1) \div block) + 1,
                      cost |-> 5]]

\* score 1 for everyone but one forward, who has 10
ScenarioScores(star) == [i \in 1..30 |-> IF i = star THEN 10 ELSE 1]

InitScenario ==
    /\ \E block \in {1, 3, 5}, star \in {25, 30} :
          LET new == NewOptimizer(ScenarioCatalog(block), ScenarioScores(star),
                                  Some(55), FALSE, None)
          IN  /\ players_df = new.players_df
              /\ expected_points = ScenarioScores(star)
              /\ sc = ScenarioStart(star)
              /\ budget = BudgetParameter(Some(55))
              /\ opt = <<new.self>>
    /\ last = Returned("__init__", 1, None)
    /\ cpv = IdleCPV
    /\ strat = IdleStrategy
    /\ tr = IdleTransfers
    /\ fixtures = IdleFixtures
    /\ forecast = IdleForecast
    /\ results = IdleResults

NextScenario == ScenarioLeaveOut \/ ScenarioSelect \/ ScenarioSelectCaptain

SpecScenario == InitScenario /\ [][NextScenario]_vars

\* C4: on the catalog of 4 GK, 10 DEF, 10 MID and 6 FWD at cost 5 with budget
\* 55, where one forward scores 10 and everyone else 1, no feasible assignment
\* has an objective above 30, and every feasible assignment that reaches 30
\* selects that forward and makes that forward the captain: the assignment of
\* maximal objective that solve() returns has it in the roster, as captain,
\* with total 30.
C4_ScenarioOptimum ==
    (ScenarioFeasible(sc) /\ expected_points[sc.watched] = 10) =>
        /\ sc.objective <= 30
        /\ sc.objective = 30 => (sc.player_var = 1 /\ sc.captain_var = 1)

\* C4 witness: a feasible assignment with objective 30, the watched id being
\* the forward that scores 10
C4_Witness ==
    /\ ScenarioFeasible(sc)
    /\ sc.objective = 30
    /\ expected_points[sc.watched] = 10
    /\ players_df[sc.watched].position = "FWD"

\* ------------------------------------------------------------------------
\* CPVCalculator (src/src/cpv.py).  A calculator holds the catalog, the
\* forecast map xP and the team difficulty map; numbers are exact rationals.
\* ------------------------------------------------------------------------
W_XP == Rat(40, 100)
W_FFI == Rat(25, 100)
W_VCS == Rat(15, 100)
W_SSS == Rat(20, 100)

\* CPVCalculator.calculate_ffi
calculate_ffi(c, player) ==
    LET form_score    == RMax(RInt(0), RMin(RInt(1), RDiv(player.form, RInt(10))))
        fdr           == IF player.team \in DOMAIN c.difficulty
                         THEN c.difficulty[player.team] ELSE 3
        fixture_score == Rat(5 - fdr, 4)
    IN  IF player.position \in {"GKP", "DEF"}
        THEN RAdd(RMul(Rat(7, 10), fixture_score), RMul(Rat(3, 10), form_score))
        ELSE RAdd(RMul(Rat(3, 10), fixture_score), RMul(Rat(7, 10), form_score))

\* the value and ceiling score without the caps at 1
calculate_vcs_uncapped(c, player) ==
    LET value_score   == IF player.cost > 0
                         THEN RDiv(Rat(player.total_points, player.cost), RInt(25))
                         ELSE RInt(0)
        ceiling_score == RDiv(player.ict_index, RInt(300))
    IN  RAdd(RMul(Rat(1, 2), value_score), RMul(Rat(1, 2), ceiling_score))

\* CPVCalculator.calculate_vcs
calculate_vcs(c, player) ==
    LET value_score   == IF player.cost > 0
                         THEN RMin(RInt(1),
                                   RDiv(Rat(player.total_points, player.cost), RInt(25)))
                         ELSE RInt(0)
        ceiling_score == RMin(RInt(1), RDiv(player.ict_index, RInt(300)))
    IN  RAdd(RMul(Rat(1, 2), value_score), RMul(Rat(1, 2), ceiling_score))

\* CPVCalculator.calculate_sss
calculate_sss(c, player) ==
    LET chance == player.chance_of_playing_next_round
    IN  IF chance = None THEN RInt(1)
        ELSE IF chance[1] < 75 THEN RInt(0)
        ELSE Rat(chance[1], 100)

\* max_xp = max(self.xP.values()) if self.xP else 1
max_xp(c) == IF DOMAIN c.xP = {} THEN 1 ELSE MaxOf({c.xP[p] : p \in DOMAIN c.xP})

\* raw_xp = self.xP.get(pid, 0)
raw_xp(c, pid) == IF pid \in DOMAIN c.xP THEN c.xP[pid] ELSE 0

\* one pass of the loop of calculate_all, for a divisor max_xp # 0
final_cpv(c, pid) ==
    LET player         == c.players[pid]
        xp_score       == Rat(raw_xp(c, pid), max_xp(c))
        ffi_score      == calculate_ffi(c, player)
        vcs_score      == calculate_vcs(c, player)
        sss_multiplier == calculate_sss(c, player)
        weighted_sum   == RAdd(RAdd(RMul(RMul(W_XP, xp_score), RInt(100)),
                                    RMul(RMul(W_FFI, ffi_score), RInt(100))),
                               RMul(RMul(W_VCS, vcs_score), RInt(100)))
    IN  RMul(weighted_sum, sss_multiplier)

\* CPVCalculator.calculate_all: the dictionary of CPV scores, or the
\* ZeroDivisionError of raw_xp / max_xp when the catalog has a row and the
\* largest forecast is 0.  xp_score keeps the loop's local of that name.
calculate_all(c) ==
    IF DOMAIN c.players # {} /\ max_xp(c) = 0
    THEN [raised |-> "ZeroDivisionError", cpv_scores |-> <<>>, xp_score |-> <<>>]
    ELSE [raised |-> "",
          cpv_scores |-> [pid \in DOMAIN c.players |-> final_cpv(c, pid)],
          xp_score |-> [pid \in DOMAIN c.players |-> Rat(raw_xp(c, pid), max_xp(c))]]

\* CPVCalculator.__init__
NewCalculator(players, xP, difficulty) ==
    [players |-> players, xP |-> xP, difficulty |-> difficulty, result |-> None]

\* a call of calculate_all on calculator k; one call per calculator
CalculateAll(k) ==
    /\ k \in DOMAIN cpv
    /\ cpv[k].result = None
    /\ cpv' = [cpv EXCEPT ![k].result = Some(calculate_all(cpv[k]))]
    /\ UNCHANGED <<players_df, expected_points, budget, opt, last, sc, strat, tr,
                 fixtures, forecast, results>>

\* ------------------------------------------------------------------------
\* Inputs of the CPV runs
\* ------------------------------------------------------------------------
MaxCatalog == 2

\* the row whose attributes vary
SubjectRows ==
    [position : Positions, team : {1},
     form : {Rat(45, 10), RInt(12)},
     cost : {0, 5},
     total_points : {50, 200},
     ict_index : {RInt(150), RInt(400)},
     chance_of_playing_next_round : {None, Some(0), Some(74), Some(75), Some(100)}]

\* the other rows
FillerRow ==
    [position |-> "MID", team |-> 2, form |-> RInt(0), cost |-> 6,
     total_points |-> 60, ict_index |-> RInt(90),
     chance_of_playing_next_round |-> Some(50)]

CPVCatalogs(n) ==
    IF n = 0 THEN {<<>>}
    ELSE {[i \in 1..n |-> IF i = 1 THEN row ELSE FillerRow] : row \in SubjectRows}

\* forecast maps: any ids of the catalog, forecasts 0, 2 or 5
ForecastMaps(n) == UNION {[ids -> {0, 2, 5}] : ids \in SUBSET (1..n)}

\* team difficulty maps: empty, and two that rate team 1
DifficultyMaps == {<<>>, <<1, 5>>, <<4, 2>>}

IdleOptimizers == <<>>
IdleLast == Returned("__init__", 0, None)

InitCPV ==
    /\ \E n \in 0..MaxCatalog :
          \E players \in CPVCatalogs(n), xP \in ForecastMaps(n),
             difficulty \in DifficultyMaps :
                cpv = <<NewCalculator(players, xP, difficulty)>>
    /\ players_df = <<>>
    /\ expected_points = <<>>
    /\ budget = 0
    /\ opt = IdleOptimizers
    /\ last = IdleLast
    /\ sc = IdleScenario
    /\ strat = IdleStrategy
    /\ tr = IdleTransfers
    /\ fixtures = IdleFixtures
    /\ forecast = IdleForecast
    /\ results = IdleResults

NextCPV == CalculateAll(1)

SpecCPV == InitCPV /\ [][NextCPV]_vars

\* ------------------------------------------------------------------------
\* What the claims about the CPV speak of
\* ------------------------------------------------------------------------
CalculateAllReturned(k) ==
    /\ k \in DOMAIN cpv
    /\ cpv[k].result # None
    /\ cpv[k].result[1].raised = ""

Vetoed(player) ==
    /\ player.chance_of_playing_next_round # None
    /\ player.chance_of_playing_next_round[1] < 75

\* C7: once calculate_all has been called on a catalog, every player of it
\* whose availability chance is present and below 75 has been given a CPV, and
\* that CPV is exactly 0.
C7_Veto ==
    \A k \in DOMAIN cpv :
        \A pid \in DOMAIN cpv[k].players :
            (cpv[k].result # None /\ Vetoed(cpv[k].players[pid])) =>
                /\ CalculateAllReturned(k)
                /\ cpv[k].result[1].cpv_scores[pid] = RInt(0)

\* the terms of the CPV as the claims state them
Clamp01(x) == IF RLess(x, RInt(0)) THEN RInt(0)
              ELSE IF RLess(RInt(1), x) THEN RInt(1) ELSE x

ForecastOf(c, pid) == IF pid \in DOMAIN c.xP THEN c.xP[pid] ELSE 0

PoolMaximum(c) ==
    IF DOMAIN c.xP = {} THEN 1
    ELSE CHOOSE m \in {c.xP[p] : p \in DOMAIN c.xP} :
            \A p \in DOMAIN c.xP : c.xP[p] <= m

DifficultyOf(c, player) ==
    IF player.team \in DOMAIN c.difficulty THEN c.difficulty[player.team] ELSE 3

FixtureFormScore(c, player) ==
    LET fixture == Rat(5 - DifficultyOf(c, player), 4)
        form    == Clamp01(RDiv(player.form, RInt(10)))
    IN  IF player.position \in {"GKP", "DEF"}
        THEN RAdd(RMul(Rat(7, 10), fixture), RMul(Rat(3, 10), form))
        ELSE IF player.position \in {"MID", "FWD"}
        THEN RAdd(RMul(Rat(3, 10), fixture), RMul(Rat(7, 10), form))
        ELSE RInt(-1)

ValueScore(player) ==
    LET value   == IF player.cost = 0 THEN RInt(0)
                   ELSE Clamp01(Rat(player.total_points, player.cost * 25))
        ceiling == Clamp01(RDiv(player.ict_index, RInt(300)))
    IN  RDiv(RAdd(value, ceiling), RInt(2))

StatusMultiplier(player) ==
    IF player.chance_of_playing_next_round = None THEN RInt(1)
    ELSE IF player.chance_of_playing_next_round[1] < 75 THEN RInt(0)
    ELSE Rat(player.chance_of_playing_next_round[1], 100)

StatedCPV(c, pid) ==
    LET player  == c.players[pid]
        xpScore == Rat(ForecastOf(c, pid), PoolMaximum(c))
        sum     == RAdd(RAdd(RMul(Rat(40, 100), xpScore),
                             RMul(Rat(25, 100), FixtureFormScore(c, player))),
                        RMul(Rat(15, 100), ValueScore(player)))
    IN  RMul(RMul(sum, RInt(100)), StatusMultiplier(player))

\* C8: once calculate_all has been called, it has returned for every catalog
\* player the CPV (0.40*xpScore + 0.25*fixtureFormScore + 0.15*valueScore)
\* * 100 * statusMultiplier, the status being a multiplier of the whole sum.
C8_Formula ==
    \A k \in DOMAIN cpv :
        \A pid \in DOMAIN cpv[k].players :
            cpv[k].result # None =>
                /\ CalculateAllReturned(k)
                /\ cpv[k].result[1].cpv_scores[pid] = StatedCPV(cpv[k], pid)

\* ------------------------------------------------------------------------
\* Two calculators over one catalog whose forecast maps differ in the value
\* of one player: calculator 1 has the smaller value, calculator 2 the larger
\* ------------------------------------------------------------------------
InitForecastPair ==
    /\ \E n \in 1..MaxCatalog :
          \E lo \in ForecastMaps(n), hi \in ForecastMaps(n),
             difficulty \in DifficultyMaps :
                /\ DOMAIN lo = DOMAIN hi
                /\ \E p \in DOMAIN lo :
                      /\ lo[p] < hi[p]
                      /\ \A q \in DOMAIN lo \ {p} : lo[q] = hi[q]
                /\ cpv = <<NewCalculator([i \in 1..n |-> FillerRow], lo, difficulty),
                           NewCalculator([i \in 1..n |-> FillerRow], hi, difficulty)>>
    /\ players_df = <<>>
    /\ expected_points = <<>>
    /\ budget = 0
    /\ opt = IdleOptimizers
    /\ last = IdleLast
    /\ sc = IdleScenario
    /\ strat = IdleStrategy
    /\ tr = IdleTransfers
    /\ fixtures = IdleFixtures
    /\ forecast = IdleForecast
    /\ results = IdleResults

NextForecastPair == CalculateAll(1) \/ CalculateAll(2)

SpecForecastPair == InitForecastPair /\ [][NextForecastPair]_vars

\* the player whose forecast the two maps differ in
RaisedPlayer == CHOOSE p \in DOMAIN cpv[1].xP : cpv[1].xP[p] # cpv[2].xP[p]

IsPoolMaximum(c, pid) == \A q \in DOMAIN c.xP : c.xP[q] <= c.xP[pid]

\* C9: once calculate_all has been called on both maps, the predicted-points
\* sub-score of the player whose forecast was raised exists under both, and
\* the one under the larger forecast is strictly greater, or both are 1 with
\* the player being the pool maximum of both maps.
C9_Monotone ==
    (Len(cpv) = 2 /\ cpv[1].result # None /\ cpv[2].result # None) =>
        /\ CalculateAllReturned(1)
        /\ CalculateAllReturned(2)
        /\ LET lower  == cpv[1].result[1].xp_score[RaisedPlayer]
               higher == cpv[2].result[1].xp_score[RaisedPlayer]
           IN  \/ RLess(lower, higher)
               \/ /\ lower = RInt(1)
                  /\ higher = RInt(1)
                  /\ IsPoolMaximum(cpv[1], RaisedPlayer)
                  /\ IsPoolMaximum(cpv[2], RaisedPlayer)

\* ------------------------------------------------------------------------
\* StrategyOverlay (src/src/strategies.py).  A catalog row carries the
\* selected_by_percent cell as the data frame holds it: no such column, NaN,
\* the empty string, a text that is no number, or a number of percent.
\* ------------------------------------------------------------------------
OwnershipCells ==
    {[kind |-> "no column"], [kind |-> "nan"], [kind |-> "empty"],
     [kind |-> "text"],
     [kind |-> "number", percent |-> Rat(51, 2)],
     [kind |-> "number", percent |-> RInt(100)]}

\* the try block of apply_strategy: player.get(..., 0), the NaN and ''
\* tests, float(ownership_value) / 100.0, and 0.0 when float() raises
ownership(player) ==
    LET cell == player.selected_by_percent
    IN  IF cell.kind \in {"no column", "nan", "empty"} THEN RDiv(RInt(0), RInt(100))
        ELSE IF cell.kind = "text" THEN RInt(0)
        ELSE RDiv(cell.percent, RInt(100))

\* the rank_climbing boost scaled like the rank_protection one
apply_strategy_halved(cpv_scores, df, mode) ==
    [pid \in DOMAIN cpv_scores |->
        IF pid \notin DOMAIN df THEN cpv_scores[pid]
        ELSE IF mode = "rank_protection"
        THEN RMul(cpv_scores[pid],
                  RAdd(RInt(1), RMul(ownership(df[pid]), Rat(1, 2))))
        ELSE IF mode = "rank_climbing"
        THEN RMul(cpv_scores[pid],
                  RAdd(RInt(1), RMul(RSub(RInt(1), ownership(df[pid])), Rat(1, 2))))
        ELSE cpv_scores[pid]]

\* the boosts of the two rank modes exchanged
apply_strategy_exchanged(cpv_scores, df, mode) ==
    [pid \in DOMAIN cpv_scores |->
        IF pid \notin DOMAIN df THEN cpv_scores[pid]
        ELSE IF mode = "rank_climbing"
        THEN RMul(cpv_scores[pid],
                  RAdd(RInt(1), RMul(ownership(df[pid]), Rat(1, 2))))
        ELSE IF mode = "rank_protection"
        THEN RMul(cpv_scores[pid],
                  RAdd(RInt(1), RSub(RInt(1), ownership(df[pid]))))
        ELSE cpv_scores[pid]]

\* StrategyOverlay.apply_strategy
apply_strategy(cpv_scores, df, mode) ==
    [pid \in DOMAIN cpv_scores |->
        IF pid \notin DOMAIN df THEN cpv_scores[pid]
        ELSE IF mode = "rank_protection"
        THEN RMul(cpv_scores[pid],
                  RAdd(RInt(1), RMul(ownership(df[pid]), Rat(1, 2))))
        ELSE IF mode = "rank_climbing"
        THEN RMul(cpv_scores[pid],
                  RAdd(RInt(1), RSub(RInt(1), ownership(df[pid]))))
        ELSE cpv_scores[pid]]

\* a call of apply_strategy on the inputs held in strat; one call per run
ApplyStrategy ==
    /\ strat.result = None
    /\ strat' = [strat EXCEPT !.result =
                    Some(apply_strategy(strat.cpv_scores, strat.players_df, strat.mode))]
    /\ UNCHANGED <<players_df, expected_points, budget, opt, last, sc, cpv, tr,
                 fixtures, forecast, results>>

\* catalogs 1..n, score maps over ids up to n + 1 (the last is in no catalog)
StrategyCatalogs(n) == [1..n -> [selected_by_percent : OwnershipCells]]
StrategyScores(n) == UNION {[ids -> {RInt(0), Rat(125, 2)}] : ids \in SUBSET (1..(n + 1))}
Modes == {"standard", "rank_protection", "rank_climbing", "balanced"}

InitStrategy ==
    /\ \E n \in 0..MaxCatalog :
          \E df \in StrategyCatalogs(n), cpv_scores \in StrategyScores(MaxCatalog),
             mode \in Modes :
                strat = [cpv_scores |-> cpv_scores, players_df |-> df,
                         mode |-> mode, result |-> None]
    /\ players_df = <<>>
    /\ expected_points = <<>>
    /\ budget = 0
    /\ opt = IdleOptimizers
    /\ last = IdleLast
    /\ sc = IdleScenario
    /\ cpv = IdleCPV
    /\ tr = IdleTransfers
    /\ fixtures = IdleFixtures
    /\ forecast = IdleForecast
    /\ results = IdleResults

NextStrategy == ApplyStrategy

SpecStrategy == InitStrategy /\ [][NextStrategy]_vars

\* the ownership fraction as the claim has it: percent / 100, and 0 for
\* missing or invalid ownership data
OwnershipFraction(player) ==
    IF player.selected_by_percent.kind = "number"
    THEN Rat(player.selected_by_percent.percent[1],
             player.selected_by_percent.percent[2] * 100)
    ELSE RInt(0)

StatedAdjustment(score, player, mode) ==
    IF mode = "rank_protection"
    THEN RMul(score, RAdd(RInt(1), RMul(Rat(1, 2), OwnershipFraction(player))))
    ELSE IF mode = "rank_climbing"
    THEN RMul(score, RAdd(RInt(1), RSub(RInt(1), OwnershipFraction(player))))
    ELSE score

\* C10: the map apply_strategy returns has exactly the ids of the input map;
\* an id absent from the catalog keeps its score in every mode; an id of the
\* catalog keeps its score in mode standard, has it multiplied by
\* 1 + 0.5 * ownershipFraction in mode rank_protection and by
\* 1 + (1 - ownershipFraction) in mode rank_climbing; so in mode standard the
\* returned map equals the input map.
C10_ApplyStrategy ==
    ("result" \in DOMAIN strat /\ strat.result # None) =>
        LET out == strat.result[1]
        IN  /\ DOMAIN out = DOMAIN strat.cpv_scores
            /\ \A pid \in DOMAIN strat.cpv_scores :
                  IF pid \notin DOMAIN strat.players_df
                  THEN out[pid] = strat.cpv_scores[pid]
                  ELSE strat.mode \in {"standard", "rank_protection", "rank_climbing"} =>
                          out[pid] = StatedAdjustment(strat.cpv_scores[pid],
                                                      strat.players_df[pid], strat.mode)
            /\ strat.mode = "standard" => out = strat.cpv_scores

C10_Witness ==
    /\ "result" \in DOMAIN strat
    /\ strat.result # None
    /\ strat.mode = "rank_climbing"
    /\ \E pid \in DOMAIN strat.cpv_scores :
          /\ pid \in DOMAIN strat.players_df
          /\ strat.players_df[pid].selected_by_percent.kind = "number"
          /\ strat.result[1][pid] # strat.cpv_scores[pid]
    /\ \E pid \in DOMAIN strat.cpv_scores :
          /\ pid \in DOMAIN strat.players_df
          /\ strat.players_df[pid].selected_by_percent.kind = "text"
    /\ \E pid \in DOMAIN strat.cpv_scores :
          /\ pid \notin DOMAIN strat.players_df
          /\ strat.cpv_scores[pid] # RInt(0)

IdSet(ids) == {ids[j] : j \in DOMAIN ids}

\* the number of passes without the limit of max_transfers
range_ignoring_max(max_transfers, to_remove, to_add) ==
    IF Cardinality(to_remove) < Cardinality(to_add)
    THEN Cardinality(to_remove) ELSE Cardinality(to_add)

\* range(min(max_transfers, len(to_remove), len(to_add))): the number of
\* passes of the loop, none for a count below 1
range(max_transfers, to_remove, to_add) ==
    LET r == Cardinality(to_remove)
        a == Cardinality(to_add)
        m == IF max_transfers < r THEN max_transfers ELSE r
        n == IF m < a THEN m ELSE a
    IN  IF n < 0 THEN 0 ELSE n

\* every pair, whatever the positions
SamePosition_any(df, to_remove, to_add) == to_remove \X to_add

\* the pairs that pass "out_player['position'] == in_player['position']"
SamePosition(df, to_remove, to_add) ==
    {pr \in to_remove \X to_add : df[pr[1]].position = df[pr[2]].position}

\* the dictionary built for a pair, lines 275-284
best_transfer(df, pr) ==
    [out_id |-> pr[1], out_cost |-> df[pr[1]].cost,
     in_id |-> pr[2], in_cost |-> df[pr[2]].cost,
     cost_diff |-> df[pr[2]].cost - df[pr[1]].cost,
     points_gain |-> df[pr[2]].expected_points - df[pr[1]].expected_points]

\* any same-position pair
BestPairs_unranked(df, to_remove, to_add) == SamePosition(df, to_remove, to_add)

\* the same-position pairs of least points_gain
BestPairs_least(df, to_remove, to_add) ==
    LET same == SamePosition(df, to_remove, to_add)
        gain(pr) == df[pr[2]].expected_points - df[pr[1]].expected_points
    IN  {pr \in same : \A other \in same : gain(pr) <= gain(other)}

\* the two nested loops of one pass: the pair held in best_transfer at their
\* end is the first pair of strictly largest points_gain in the order the two
\* sets are iterated, that is some pair of largest points_gain
BestPairs(df, to_remove, to_add) ==
    LET same == SamePosition(df, to_remove, to_add)
        gain(pr) == df[pr[2]].expected_points - df[pr[1]].expected_points
        best_gain == MaxOf({gain(pr) : pr \in same})
    IN  {pr \in same : gain(pr) = best_gain}

\* the outcomes of n more passes of the loop: the transfers appended, or the
\* KeyError of row['expected_points'] on a table without that column
RECURSIVE Passes(_, _, _, _)
Passes(df, to_remove, to_add, n) ==
    IF n = 0 \/ SamePosition(df, to_remove, to_add) = {}
    THEN {[raised |-> "", transfers |-> <<>>]}
    ELSE IF \E p \in to_remove \cup to_add : "expected_points" \notin DOMAIN df[p]
    THEN {[raised |-> "KeyError", transfers |-> <<>>]}
    ELSE UNION {
           {[raised |-> rest.raised,
             transfers |-> IF rest.raised = "" THEN <<best_transfer(df, pr)>> \o rest.transfers
                           ELSE <<>>] :
               rest \in Passes(df, to_remove \ {pr[1]}, to_add \ {pr[2]}, n - 1)} :
           pr \in BestPairs(df, to_remove, to_add)}

\* suggest_transfers
suggest_transfers(current_squad_ids, optimal_squad_ids, df, max_transfers) ==
    LET current_set == IdSet(current_squad_ids)
        optimal_set == IdSet(optimal_squad_ids)
        to_remove   == current_set \ optimal_set
        to_add      == optimal_set \ current_set
    IN  Passes(df, to_remove, to_add, range(max_transfers, to_remove, to_add))

\* a call of suggest_transfers on the inputs held in tr; one call per run
SuggestTransfers ==
    /\ tr.result = None
    /\ \E outcome \in suggest_transfers(tr.current_squad_ids, tr.optimal_squad_ids,
                                        tr.players_df, tr.max_transfers) :
          tr' = [tr EXCEPT !.result = Some(outcome)]
    /\ UNCHANGED <<players_df, expected_points, budget, opt, last, sc, cpv, strat,
                 fixtures, forecast, results>>

\* ------------------------------------------------------------------------
\* Inputs of the transfer runs
\* ------------------------------------------------------------------------
MaxSquadIds == 5

\* the list of the ids of S in increasing order
RECURSIVE IdList(_)
IdList(S) ==
    IF S = {} THEN <<>>
    ELSE LET least == CHOOSE x \in S : \A y \in S : x <= y
         IN  <<least>> \o IdList(S \ {least})

\* the catalog as optimize_gameweek leaves it (with the expected_points
\* column, scored) or as get_all_players returns it (without)
TransferCatalog(n, layout, level, scored) ==
    [i \in 1..n |->
        LET position == IF layout = "alternating"
                        THEN (IF i % 2 = 1 THEN "DEF" ELSE "MID")
                        ELSE IF layout = "keeper first"
                        THEN (IF i = 1 THEN "GKP" ELSE "MID")
                        ELSE "MID"
            cost     == 4 + (i % 3)
        IN  IF scored
            THEN [position |-> position, cost |-> cost,
                  expected_points |-> IF level THEN 3 ELSE (i * 3) % 5]
            ELSE [position |-> position, cost |-> cost]]

TransferLayouts == {"alternating", "keeper first", "one position"}

MaxTransferArgs == {-1, 0, 1, 2, 3}

InitTransfers ==
    /\ \E layout \in TransferLayouts, level \in BOOLEAN, scored \in BOOLEAN,
          current \in SUBSET (1..MaxSquadIds), optimal \in SUBSET (1..MaxSquadIds),
          max_transfers \in MaxTransferArgs :
             tr = [current_squad_ids |-> IdList(current),
                   optimal_squad_ids |-> IdList(optimal),
                   players_df |-> TransferCatalog(MaxSquadIds, layout, level, scored),
                   max_transfers |-> max_transfers,
                   result |-> None]
    /\ players_df = <<>>
    /\ expected_points = <<>>
    /\ budget = 0
    /\ opt = IdleOptimizers
    /\ last = IdleLast
    /\ sc = IdleScenario
    /\ cpv = IdleCPV
    /\ strat = IdleStrategy
    /\ fixtures = IdleFixtures
    /\ forecast = IdleForecast
    /\ results = IdleResults

NextTransfers == SuggestTransfers

SpecTransfers == InitTransfers /\ [][NextTransfers]_vars

\* ------------------------------------------------------------------------
\* What the claims about the transfers speak of
\* ------------------------------------------------------------------------
TransfersReturned ==
    /\ "result" \in DOMAIN tr
    /\ tr.result # None
    /\ tr.result[1].raised = ""

Removable == IdSet(tr.current_squad_ids) \ IdSet(tr.optimal_squad_ids)
Addable == IdSet(tr.optimal_squad_ids) \ IdSet(tr.current_squad_ids)

PositionIn(p) == tr.players_df[p].position
ScoreIn(p) == tr.players_df[p].expected_points
CostIn(p) == tr.players_df[p].cost

\* C12 as stated: every transfer returned pairs players of the same position,
\* and the number of transfers returned is <= max_transfers.
C12_SwapValidity ==
    TransfersReturned =>
        LET t == tr.result[1].transfers
        IN  /\ \A j \in DOMAIN t : PositionIn(t[j].out_id) = PositionIn(t[j].in_id)
            /\ Len(t) <= tr.max_transfers

\* C12 amended: every transfer returned pairs players of the same position,
\* and the number of transfers returned is <= max_transfers, or 0 when
\* max_transfers is below 0.
C12_SwapValidityFromZero ==
    TransfersReturned =>
        LET t == tr.result[1].transfers
        IN  /\ \A j \in DOMAIN t : PositionIn(t[j].out_id) = PositionIn(t[j].in_id)
            /\ Len(t) <= (IF tr.max_transfers < 0 THEN 0 ELSE tr.max_transfers)

\* C12 witness: max_transfers transfers returned while more pairs remain
C12_Witness ==
    /\ TransfersReturned
    /\ tr.max_transfers = 1
    /\ Len(tr.result[1].transfers) = 1
    /\ Cardinality(Removable) > 1
    /\ Cardinality(Addable) > 1

\* the out-players and in-players of the transfers before the j-th
OutsBefore(t, j) == {t[i].out_id : i \in 1..(j - 1)}
InsBefore(t, j) == {t[i].in_id : i \in 1..(j - 1)}

\* C13: each transfer returned pairs an out-player of current \ target with
\* an in-player of target \ current of the same position, neither used by an
\* earlier transfer; its points gain score[in] - score[out] is the largest
\* among the same-position pairs not used by an earlier transfer; it carries
\* cost delta cost[in] - cost[out] and that points gain.
C13_GreedyStep ==
    TransfersReturned =>
        LET t == tr.result[1].transfers
        IN  \A j \in DOMAIN t :
              LET removable == Removable \ OutsBefore(t, j)
                  addable   == Addable \ InsBefore(t, j)
              IN  /\ t[j].out_id \in removable
                  /\ t[j].in_id \in addable
                  /\ PositionIn(t[j].out_id) = PositionIn(t[j].in_id)
                  /\ \A o \in removable : \A i \in addable :
                        PositionIn(o) = PositionIn(i) =>
                            ScoreIn(i) - ScoreIn(o)
                                <= ScoreIn(t[j].in_id) - ScoreIn(t[j].out_id)
                  /\ t[j].cost_diff = CostIn(t[j].in_id) - CostIn(t[j].out_id)
                  /\ t[j].points_gain = ScoreIn(t[j].in_id) - ScoreIn(t[j].out_id)

\* C13 witness: two transfers returned, the first with a strictly larger
\* points gain than another pair that was available
C13_Witness ==
    /\ TransfersReturned
    /\ Len(tr.result[1].transfers) = 2
    /\ \E o \in Removable : \E i \in Addable :
          /\ PositionIn(o) = PositionIn(i)
          /\ ScoreIn(i) - ScoreIn(o) < tr.result[1].transfers[1].points_gain

\* C15: once suggest_transfers has been called it has returned a list without
\* raising, and the list is empty when no same-position (out, in) pair exists.
C15_NeverFails ==
    ("result" \in DOMAIN tr /\ tr.result # None) =>
        /\ tr.result[1].raised = ""
        /\ (\A o \in Removable : \A i \in Addable : PositionIn(o) # PositionIn(i)) =>
              tr.result[1].transfers = <<>>

\* C14: once calculate_all has been called it has completed and returned a
\* score for every player of the catalog, dividing by a divisor of the
\* predicted-points sub-score that is not 0; once apply_strategy has been called
\* it has returned a score for every id of its input.
C14_NeverFails ==
    /\ \A k \in DOMAIN cpv :
          cpv[k].result # None =>
              /\ cpv[k].result[1].raised = ""
              /\ DOMAIN cpv[k].result[1].cpv_scores = DOMAIN cpv[k].players
              /\ DOMAIN cpv[k].players # {} => max_xp(cpv[k]) # 0
    /\ ("result" \in DOMAIN strat /\ strat.result # None) =>
          DOMAIN strat.result[1] = DOMAIN strat.cpv_scores

\* C16: an optimizer constructed without a budget argument has budget 83.5
\* (tenths: 835), and the roster it returns costs at most 83.5.
C16_DefaultBudget ==
    \A i \in DOMAIN opt :
        opt[i].budget_arg = None =>
            /\ 10 * budget = 835
            /\ opt[i].solution # None => 10 * opt[i].solution[1].total_cost <= 835

\* "D-M-F"
FormationString(D, M, F) == ToString(D) \o "-" \o ToString(M) \o "-" \o ToString(F)

\* C17: in a solution an optimizer holds, deterministic or robust, total_cost
\* is the sum of the selected costs, budget_remaining is budget - total_cost
\* and >= 0, the total score is the sum of the selected point-estimate scores
\* plus the captain's once more, captain_id is the one player flagged
\* is_captain, and the formation is "D-M-F" for the numbers D, M, F of
\* selected defenders, midfielders and forwards, with D + M + F = 10.
C17_ResultFields ==
    \A i \in DOMAIN opt :
        opt[i].solution # None =>
            LET sol == opt[i].solution[1]
                S   == sol.selected_players
                D   == NumberAt(S, "DEF")
                M   == NumberAt(S, "MID")
                F   == NumberAt(S, "FWD")
            IN  /\ sol.total_cost = CostOfRoster(S)
                /\ sol.budget_remaining = budget - sol.total_cost
                /\ sol.budget_remaining >= 0
                /\ sol.expected_points = PointTotal(S, sol.captain_id)
                /\ sol.is_captain = {sol.captain_id}
                /\ sol.formation = FormationString(D, M, F)
                /\ D + M + F = 10

\* C17 witness: a robust solve() returned a roster whose total score is above
\* 0, in formation 4-3-3
C17_Witness ==
    /\ SolveReturnedRoster
    /\ opt[last.inst].robust
    /\ last.ret[1].expected_points > 0
    /\ last.ret[1].formation = "4-3-3"

\* the robust total of a roster with its captain, in hundredths: every score
\* times (1 - margin), the captain's twice
RobustTotal(S, c, margin) == PointTotal(S, c) * (100 - margin)

InitInterleaved ==
    /\ \E robust \in BOOLEAN, budget_arg \in {Some(60)} :
          \E xp \in {[i \in 1..MaxPlayers |-> 2 * i + 1]} :
             LET df     == Catalog(MaxPlayers, <<1, 6, 3>>, MAX_PLAYERS_PER_TEAM)
                 first  == NewOptimizer(df, xp, budget_arg, robust, None)
                 second == NewOptimizer(first.players_df, xp, budget_arg, TRUE, Some(150))
             IN  /\ players_df = second.players_df
                 /\ expected_points = xp
                 /\ budget = BudgetParameter(budget_arg)
                 /\ opt = <<first.self, second.self>>
    /\ last = Returned("__init__", 2, None)
    /\ sc = IdleScenario
    /\ cpv = IdleCPV
    /\ strat = IdleStrategy
    /\ tr = IdleTransfers
    /\ fixtures = IdleFixtures
    /\ forecast = IdleForecast
    /\ results = IdleResults

NextInterleaved ==
    \E i \in {1, 2} :
        \/ BuildModel(i)
        \/ AddMustInclude(i, {2})
        \/ AddMustExclude(i, {MaxPlayers - 1})
        \/ Solve(i)

SpecInterleaved == InitInterleaved /\ [][NextInterleaved]_vars

\* the total object i maximises, from the caller's score map and the
\* object's own mode and margin
OwnTotal(i, S, c) ==
    IF opt[i].robust THEN RobustTotal(S, c, opt[i].uncertainty_margin)
    ELSE PointTotal(S, c)

\* what solve() of object i gives when no other object exists: None when no
\* roster satisfies the rows of i's problem, else a roster that satisfies
\* them with the largest total of i's mode, reported with its point total
AloneResult(i, ret) ==
    /\ (ret = None) <=> (LegalRosters(i) = {})
    /\ ret # None =>
          /\ ret[1].selected_players \in LegalRosters(i)
          /\ ret[1].objective_value
                = OwnTotal(i, ret[1].selected_players, ret[1].captain_id)
          /\ \A S \in LegalRosters(i) : \A c \in S :
                OwnTotal(i, S, c) <= ret[1].objective_value
          /\ ret[1].expected_points
                = PointTotal(ret[1].selected_players, ret[1].captain_id)

\* C19: in every interleaving of the calls of two optimizers, what a solve()
\* returns is what that optimizer gives alone on its own calls, and a call on
\* one optimizer leaves the state of the other as it was.
C19_Independent ==
    /\ [](SolveReturned => AloneResult(last.inst, last.ret))
    /\ [][\A i \in DOMAIN opt : last'.inst # i => opt'[i] = opt[i]]_vars

\* C19 witness: both optimizers hold a roster, the two rosters differ, and
\* object 1 was given a forced player that object 2 was not
C19_Witness ==
    /\ DOMAIN opt = {1, 2}
    /\ opt[1].solution # None
    /\ opt[2].solution # None
    /\ opt[1].solution[1].selected_players # opt[2].solution[1].selected_players
    /\ ForcedIn(1) # {}
    /\ ForcedIn(2) = {}
    /\ opt[1].robust

\* ------------------------------------------------------------------------
\* The stages side by side, each on inputs the caller holds: the catalog and
\* score map given to FPLOptimizer, the catalog, forecast map and difficulty
\* map of a CPVCalculator, the score map and catalog given to apply_strategy,
\* the id lists and catalog given to suggest_transfers
\* ------------------------------------------------------------------------
\* FPLOptimizer(players_df, expected_points, budget, robust, margin) on the
\* caller's catalog and score map
Construct(budget_arg, robust, margin_arg) ==
    /\ opt = IdleOptimizers
    /\ LET new == NewOptimizer(players_df, expected_points, budget_arg, robust,
                               margin_arg)
       IN  /\ players_df' = new.players_df
           /\ opt' = <<new.self>>
           /\ budget' = BudgetParameter(budget_arg)
    /\ last' = Returned("__init__", 1, None)
    /\ UNCHANGED <<expected_points, sc, cpv, strat, tr,
                 fixtures, forecast, results>>

StageCalculatorRow ==
    [position |-> "DEF", team |-> 1, form |-> RInt(12), cost |-> 5,
     total_points |-> 200, ict_index |-> RInt(400),
     chance_of_playing_next_round |-> Some(100)]

InitStages ==
    /\ players_df = Catalog(MaxPlayers, <<1, 6, 3>>, MAX_PLAYERS_PER_TEAM)
    /\ expected_points \in ScoreMaps(MaxPlayers)
    /\ budget = 0
    /\ opt = IdleOptimizers
    /\ last = IdleLast
    /\ sc = IdleScenario
    /\ cpv = <<NewCalculator([i \in 1..MaxCatalog |->
                                 IF i = 1 THEN StageCalculatorRow ELSE FillerRow],
                             [i \in 1..MaxCatalog |-> IF i = 1 THEN 5 ELSE 2],
                             <<4, 2>>)>>
    /\ strat = [cpv_scores |-> [pid \in 1..(MaxCatalog + 1) |-> Rat(125, 2)],
                players_df |-> [i \in 1..MaxCatalog |->
                                   [selected_by_percent |->
                                       [kind |-> "number", percent |-> Rat(51, 2)]]],
                mode |-> "rank_climbing",
                result |-> None]
    /\ tr = [current_squad_ids |-> IdList(1..(MaxSquadIds \div 2)),
             optimal_squad_ids |-> IdList(((MaxSquadIds \div 2) + 1)..MaxSquadIds),
             players_df |-> TransferCatalog(MaxSquadIds, "alternating", FALSE, TRUE),
             max_transfers |-> 2,
             result |-> None]
    /\ fixtures = IdleFixtures
    /\ forecast = IdleForecast
    /\ results = IdleResults

NextStages ==
    \/ \E budget_arg \in {None, Some(60)}, robust \in BOOLEAN :
          Construct(budget_arg, robust, None)
    \/ BuildModel(1)
    \/ AddMustInclude(1, {2})
    \/ AddMustExclude(1, {MaxPlayers - 1})
    \/ Solve(1)
    \/ CalculateAll(1)
    \/ ApplyStrategy
    \/ SuggestTransfers

SpecStages == InitStages /\ [][NextStages]_vars

\* C18: no step of any stage (building an optimizer, build_model,
\* add_must_include / add_must_exclude, solve, calculate_all, apply_strategy,
\* suggest_transfers) changes what the caller passed in: the optimizer's
\* catalog and score map, the calculator's catalog, forecast map and
\* difficulty map, apply_strategy's score map (same keys, same values) and
\* catalog, and suggest_transfers' two id lists and catalog.
C18_StagesPure ==
    [][/\ players_df' = players_df
       /\ expected_points' = expected_points
       /\ DOMAIN cpv' = DOMAIN cpv
       /\ \A k \in DOMAIN cpv :
             /\ cpv'[k].players = cpv[k].players
             /\ cpv'[k].xP = cpv[k].xP
             /\ cpv'[k].difficulty = cpv[k].difficulty
       /\ DOMAIN strat'.cpv_scores = DOMAIN strat.cpv_scores
       /\ \A pid \in DOMAIN strat.cpv_scores :
             strat'.cpv_scores[pid] = strat.cpv_scores[pid]
       /\ strat'.players_df = strat.players_df
       /\ tr'.current_squad_ids = tr.current_squad_ids
       /\ tr'.optimal_squad_ids = tr.optimal_squad_ids
       /\ tr'.players_df = tr.players_df]_vars

\* C18 witness: every stage has run and produced something: a robust
\* optimizer holds a roster, calculate_all returned scores, apply_strategy
\* returned a map that differs from its input, suggest_transfers returned a
\* swap
C18_Witness ==
    /\ opt # IdleOptimizers
    /\ opt[1].robust
    /\ opt[1].solution # None
    /\ opt[1].asked_include # {}
    /\ cpv[1].result # None
    /\ cpv[1].result[1].raised = ""
    /\ strat.result # None
    /\ strat.result[1] # strat.cpv_scores
    /\ tr.result # None
    /\ tr.result[1].raised = ""
    /\ tr.result[1].transfers # <<>>

\* ------------------------------------------------------------------------
\* Ownership that is missing or unusable
\* ------------------------------------------------------------------------
UnusableOwnership(player) ==
    player.selected_by_percent.kind \in {"no column", "nan", "empty", "text"}

\* C21: once apply_strategy has been called, every catalog player of the
\* score map whose ownership is missing, empty or not a number has, in every
\* mode, an adjusted score equal to the base score.
C21_UnusableOwnershipNeutral ==
    ("result" \in DOMAIN strat /\ strat.result # None) =>
        \A pid \in DOMAIN strat.cpv_scores :
            (pid \in DOMAIN strat.players_df
                /\ UnusableOwnership(strat.players_df[pid])) =>
                    strat.result[1][pid] = strat.cpv_scores[pid]

\* ------------------------------------------------------------------------
\* FPLAPIClient.get_next_fixture_difficulty and the calculator built from its
\* map.  fixtures.fixtures_df is the list of fixtures of the next gameweek as
\* the API returned it.
\* ------------------------------------------------------------------------
\* range(1, 21)
TeamRange == 1..20

\* the loop over fixtures_df.iterrows(): team_h is assigned, then team_a
RECURSIVE FixtureLoop(_, _)
FixtureLoop(fixtures_df, n) ==
    IF n = 0 THEN <<>>
    ELSE LET before == FixtureLoop(fixtures_df, n - 1)
             row    == fixtures_df[n]
             home   == [t \in DOMAIN before \cup {row.team_h} |->
                           IF t = row.team_h THEN row.team_h_difficulty ELSE before[t]]
         IN  [t \in DOMAIN home \cup {row.team_a} |->
                 IF t = row.team_a THEN row.team_a_difficulty ELSE home[t]]

\* FPLAPIClient.get_next_fixture_difficulty, from the fixtures fetched
get_next_fixture_difficulty(fixtures_df) ==
    IF Len(fixtures_df) = 0
    THEN [i \in TeamRange |-> 3]
    ELSE LET team_difficulty == FixtureLoop(fixtures_df, Len(fixtures_df))
         IN  [i \in DOMAIN team_difficulty \cup TeamRange |->
                 IF i \in DOMAIN team_difficulty THEN team_difficulty[i] ELSE 5]

\* team_difficulty = self.api_client.get_next_fixture_difficulty(gameweek)
GetNextFixtureDifficulty ==
    /\ fixtures.team_difficulty = None
    /\ fixtures' = [fixtures EXCEPT !.team_difficulty =
                       Some(get_next_fixture_difficulty(fixtures.fixtures_df))]
    /\ UNCHANGED <<players_df, expected_points, budget, opt, last, sc, cpv, strat,
                   tr, forecast, results>>

\* cpv_calc = CPVCalculator(players_df, expected_points, team_difficulty)
NewCalculatorFromFixtures ==
    /\ cpv = IdleCPV
    /\ fixtures.team_difficulty # None
    /\ cpv' = <<NewCalculator(fixtures.players_df, fixtures.expected_points,
                              fixtures.team_difficulty[1])>>
    /\ UNCHANGED <<players_df, expected_points, budget, opt, last, sc, strat, tr,
                   fixtures, forecast, results>>

\* CPVCalculator(players_df, expected_points, team_difficulty) with a map of
\* the caller's own
NewCalculatorFromMap(team_difficulty) ==
    /\ cpv = IdleCPV
    /\ cpv' = <<NewCalculator(fixtures.players_df, fixtures.expected_points,
                              team_difficulty)>>
    /\ UNCHANGED <<players_df, expected_points, budget, opt, last, sc, strat, tr,
                   fixtures, forecast, results>>

MaxFixtures == 2

\* fixtures between teams 1 and 2; team 3 never has one
FixtureRows ==
    {[team_h |-> 1, team_h_difficulty |-> 2, team_a |-> 2, team_a_difficulty |-> 4],
     [team_h |-> 2, team_h_difficulty |-> 3, team_a |-> 1, team_a_difficulty |-> 5],
     [team_h |-> 2, team_h_difficulty |-> 1, team_a |-> 2, team_a_difficulty |-> 4]}

FixtureLists == UNION {[1..n -> FixtureRows] : n \in 0..MaxFixtures}

InitFixtures ==
    /\ \E fixtures_df \in FixtureLists, position \in {"DEF", "MID"}, team \in {1, 3} :
          fixtures = [fixtures_df |-> fixtures_df,
                      players_df |-> [i \in 1..MaxCatalog |->
                                         IF i = 1
                                         THEN [StageCalculatorRow EXCEPT
                                                 !.position = position, !.team = team]
                                         ELSE FillerRow],
                      expected_points |-> [i \in 1..MaxCatalog |-> IF i = 1 THEN 5 ELSE 2],
                      team_difficulty |-> None]
    /\ players_df = <<>>
    /\ expected_points = <<>>
    /\ budget = 0
    /\ opt = IdleOptimizers
    /\ last = IdleLast
    /\ sc = IdleScenario
    /\ cpv = IdleCPV
    /\ strat = IdleStrategy
    /\ tr = IdleTransfers
    /\ forecast = IdleForecast
    /\ results = IdleResults

NextFixtures ==
    \/ GetNextFixtureDifficulty
    \/ NewCalculatorFromFixtures
    \/ \E team_difficulty \in DifficultyMaps : NewCalculatorFromMap(team_difficulty)
    \/ CalculateAll(1)

SpecFixtures == InitFixtures /\ [][NextFixtures]_vars

\* the teams of a fixture list
Scheduled(fixtures_df) ==
    {fixtures_df[n].team_h : n \in DOMAIN fixtures_df}
        \cup {fixtures_df[n].team_a : n \in DOMAIN fixtures_df}

\* the CPV of a player whose fixture is rated fdr
CPVAtDifficulty(c, pid, fdr) ==
    StatedCPV([c EXCEPT !.difficulty = [t \in {c.players[pid].team} |-> fdr]], pid)

\* C22: a team without a fixture in the list fetched has rating 5 in the map
\* get_next_fixture_difficulty returns, whether the list is empty or not, and
\* a player whose team the calculator's difficulty map does not have is given
\* the CPV of a fixture rated 5.
C22_NoFixtureWorst ==
    /\ fixtures.team_difficulty # None =>
          \A team \in TeamRange \ Scheduled(fixtures.fixtures_df) :
              fixtures.team_difficulty[1][team] = 5
    /\ \A k \in DOMAIN cpv : \A pid \in DOMAIN cpv[k].players :
          (CalculateAllReturned(k)
              /\ cpv[k].players[pid].team \notin DOMAIN cpv[k].difficulty) =>
                  cpv[k].result[1].cpv_scores[pid] = CPVAtDifficulty(cpv[k], pid, 5)

\* ------------------------------------------------------------------------
\* Fallbacks of the lookups
\* ------------------------------------------------------------------------
\* C23: a catalog player absent from the forecast map has been scored by
\* calculate_all with forecast 0, and with status multiplier 1 when the
\* availability chance is absent; a catalog player absent from the score map
\* has expected_points 0 in the optimizer's table; a catalog player with
\* missing ownership has been adjusted by apply_strategy
\* with ownership 0.
C23_TotalLookups ==
    /\ \A k \in DOMAIN cpv : \A pid \in DOMAIN cpv[k].players :
          (cpv[k].result # None /\ pid \notin DOMAIN cpv[k].xP) =>
              /\ CalculateAllReturned(k)
              /\ cpv[k].result[1].xp_score[pid] = RInt(0)
              /\ cpv[k].result[1].cpv_scores[pid] = StatedCPV(cpv[k], pid)
    /\ \A i \in DOMAIN opt : \A p \in DOMAIN OwnTable(opt[i]) :
          p \notin DOMAIN expected_points =>
              OwnTable(opt[i])[p].expected_points = 0
    /\ ("result" \in DOMAIN strat /\ strat.result # None) =>
          \A pid \in DOMAIN strat.cpv_scores \cap DOMAIN strat.players_df :
              (strat.players_df[pid].selected_by_percent.kind
                    \in {"no column", "nan", "empty"}
                 /\ strat.mode \in {"standard", "rank_protection", "rank_climbing"}) =>
                    strat.result[1][pid]
                        = StatedAdjustment(strat.cpv_scores[pid],
                                           strat.players_df[pid], strat.mode)

\* ------------------------------------------------------------------------
\* src/src/models.py and the forecasting step of optimize_gameweek.  Scores
\* are exact fractions.  What statsmodels, sklearn's Ridge and numpy's random
\* sampling give is a choice among values such a library can return.
\* ------------------------------------------------------------------------
\* HYBRID_ML_RATIO = (2, 1)
HYBRID_ML_RATIO == <<2, 1>>

RECURSIVE SeqSum(_, _)
\* np.sum of the first n terms of a list of integers
SeqSum(xs, n) == IF n = 0 THEN 0 ELSE xs[n] + SeqSum(xs, n - 1)

\* PredictionModels.simple_average
simple_average(points_history) ==
    IF Len(points_history) = 0 THEN RInt(0)
    ELSE Rat(SeqSum(points_history, Len(points_history)), Len(points_history))

\* PredictionModels.weighted_average: weight i / (1 + ... + n) for the i-th
weighted_average(points_history) ==
    IF Len(points_history) = 0 THEN RInt(0)
    ELSE LET n == Len(points_history)
         IN  Rat(SeqSum([i \in 1..n |-> i * points_history[i]], n),
                 SeqSum([i \in 1..n |-> i], n))

\* the mean forecast a fitted statsmodels model can give, below and above 0
FittedMeans == {Rat(-3, 2), Rat(7, 2)}

\* PredictionModels.exponential_smoothing: the fitted forecast, or the
\* weighted average for fewer than 4 points or when the fit raises
exponential_smoothing(points_history, weeks_ahead) ==
    IF Len(points_history) < 4 THEN {weighted_average(points_history)}
    ELSE FittedMeans \cup {weighted_average(points_history)}

\* PredictionModels.monte_carlo_simulation: the mean of a sample drawn with
\* replacement lies between the least and the largest point of the history
monte_carlo_simulation(points_history) ==
    IF Len(points_history) = 0 THEN {RInt(0)}
    ELSE LET pts == {points_history[i] : i \in DOMAIN points_history}
         IN  {RInt(MaxOf(pts)), RInt(-MaxOf({-p : p \in pts})),
              simple_average(points_history)}

\* PredictionModels.bootstrapping
bootstrapping(points_history) == monte_carlo_simulation(points_history)

\* PredictionModels.arima_forecast
arima_forecast(points_history, weeks_ahead) ==
    IF Len(points_history) < 10 THEN {weighted_average(points_history)}
    ELSE FittedMeans \cup {weighted_average(points_history)}

\* PredictionModels.linear_regression_forecast: least squares of the points
\* on the week numbers 1..n, the forecasts of the next weeks_ahead weeks
\* clipped at 0, and their mean
linear_regression_forecast(points_history, weeks_ahead) ==
    IF Len(points_history) < 3 THEN weighted_average(points_history)
    ELSE LET n     == Len(points_history)
             sx    == SeqSum([i \in 1..n |-> i], n)
             sxx   == SeqSum([i \in 1..n |-> i * i], n)
             sy    == SeqSum(points_history, n)
             sxy   == SeqSum([i \in 1..n |-> i * points_history[i]], n)
             slope == Rat(n * sxy - sx * sy, n * sxx - sx * sx)
             icpt  == RDiv(RSub(RInt(sy), RMul(slope, RInt(sx))), RInt(n))
             fc(w) == RMax(RAdd(icpt, RMul(slope, RInt(n + w))), RInt(0))
             total[w \in 0..weeks_ahead] ==
                 IF w = 0 THEN RInt(0) ELSE RAdd(total[w - 1], fc(w))
         IN  RDiv(total[weeks_ahead], RInt(weeks_ahead))

\* the if / elif chain of estimate_expected_points: the values exp_pts can
\* take for one history
exp_pts(points_list, method, weeks_to_end) ==
    IF method = "simple_average" THEN {simple_average(points_list)}
    ELSE IF method = "weighted_average" THEN {weighted_average(points_list)}
    ELSE IF method = "exponential_smoothing"
    THEN exponential_smoothing(points_list, weeks_to_end)
    ELSE IF method = "monte_carlo" THEN monte_carlo_simulation(points_list)
    ELSE IF method = "bootstrapping" THEN bootstrapping(points_list)
    ELSE IF method = "arima" THEN arima_forecast(points_list, weeks_to_end)
    ELSE IF method = "linear_regression"
    THEN {linear_regression_forecast(points_list, weeks_to_end)}
    ELSE {weighted_average(points_list)}

\* max(0, exp_pts)
clipped(x) == RMax(RInt(0), x)

\* estimate_expected_points: the maps it can return
estimate_expected_points(player_histories, method, weeks_to_end) ==
    LET values(player_id) ==
            IF Len(player_histories[player_id]) = 0 THEN {RInt(0)}
            ELSE {clipped(x) :
                    x \in exp_pts(player_histories[player_id], method, weeks_to_end)}
    IN  {m \in [DOMAIN player_histories ->
                   UNION {values(p) : p \in DOMAIN player_histories}] :
            \A p \in DOMAIN player_histories : m[p] \in values(p)}

\* len(X) < 10 in HybridModel.fit: the rows a position needs to be fitted
MinFitRows == 10

\* HybridModel.fit: the positions that get a model
fit(player_data) ==
    {position \in Positions :
        Cardinality({r \in DOMAIN player_data :
                        player_data[r].position = position}) >= MinFitRows}

\* what a fitted Ridge model can predict for a row: a value below 0, or the
\* row's total points
RidgeFits == {"below zero", "total points"}

\* HybridModel.predict, by row
predict(player_data, models, ridge) ==
    [r \in DOMAIN player_data |->
        IF player_data[r].position \notin models THEN RInt(0)
        ELSE IF ridge = "below zero" THEN RMax(RInt(0), RInt(-1))
        ELSE RMax(RInt(0), RInt(player_data[r].total_points))]

\* (s - s.min()) / (s.max() - s.min() + 1e-10).  The 1e-10 keeps the divisor
\* from being 0 when all values are equal, and the quotient is then 0; on a
\* range that is not 0 it changes the quotient by less than one part in 10^10
\* and is left out
normalized(s) ==
    LET lo == CHOOSE x \in {s[r] : r \in DOMAIN s} :
                 \A r \in DOMAIN s : RLeq(x, s[r])
        hi == CHOOSE x \in {s[r] : r \in DOMAIN s} :
                 \A r \in DOMAIN s : RLeq(s[r], x)
    IN  [r \in DOMAIN s |->
            IF hi = lo THEN RInt(0) ELSE RDiv(RSub(s[r], lo), RSub(hi, lo))]

\* HybridModel.hybrid_score(player_data, player_data['total_points']), by row
hybrid_score(player_data, models, ridge) ==
    LET actual_points == [r \in DOMAIN player_data |->
                             RInt(player_data[r].total_points)]
        lo == CHOOSE x \in {actual_points[r] : r \in DOMAIN player_data} :
                 \A r \in DOMAIN player_data : RLeq(x, actual_points[r])
        hi == CHOOSE x \in {actual_points[r] : r \in DOMAIN player_data} :
                 \A r \in DOMAIN player_data : RLeq(actual_points[r], x)
        actual_norm == normalized(actual_points)
        pred_norm   == normalized(predict(player_data, models, ridge))
        a == RInt(HYBRID_ML_RATIO[1])
        b == RInt(HYBRID_ML_RATIO[2])
    IN  [r \in DOMAIN player_data |->
            LET hybrid == RDiv(RAdd(RMul(a, actual_norm[r]), RMul(b, pred_norm[r])),
                               RAdd(a, b))
            IN  RAdd(RMul(hybrid, RSub(hi, lo)), lo)]

\* pandas Series.to_dict(): keyed by the index of the table, which for the
\* table get_all_players returns is the row number, counted from 0
to_dict(series) == [k \in {r - 1 : r \in DOMAIN series} |-> series[k + 1]]

\* the forecasting step of optimize_gameweek: the hybrid branch or
\* estimate_expected_points on the histories fetched
EstimateExpectedPoints ==
    /\ forecast.expected_points = None
    /\ IF forecast.method = "hybrid"
       THEN \E ridge \in RidgeFits :
               forecast' = [forecast EXCEPT !.expected_points =
                   Some(to_dict(hybrid_score(forecast.players_df,
                                             fit(forecast.players_df), ridge)))]
       ELSE \E m \in estimate_expected_points(forecast.histories, forecast.method,
                                              forecast.weeks_remaining) :
               forecast' = [forecast EXCEPT !.expected_points = Some(m)]
    /\ UNCHANGED <<players_df, expected_points, budget, opt, last, sc, cpv, strat,
                   tr, fixtures, results>>

\* ------------------------------------------------------------------------
\* Inputs of the forecasting runs
\* ------------------------------------------------------------------------
Methods ==
    {"simple_average", "weighted_average", "exponential_smoothing", "monte_carlo",
     "bootstrapping", "arima", "linear_regression", "hybrid"}

\* the table of get_all_players: ids count from 1, row 1 has total points low
ForecastCatalog(n, low) ==
    [r \in 1..n |-> [id |-> r, position |-> "MID",
                     total_points |-> IF r = 1 THEN low ELSE (r * 3) % 7]]

\* points per gameweek of one player, as history['total_points'].tolist()
HistoryLists ==
    {<<>>, <<2>>, <<-2, 1>>, <<6, 4, 2, 0>>,
     [i \in 1..MinFitRows |-> (i % 3) - 1]}

\* get_player_histories_bulk: player 1 has a history, player 2 one that is
\* empty after the filter on the round, no other player has one
InitForecast ==
    /\ \E method \in Methods, n \in {MaxCatalog, MinFitRows}, low \in {-1, 0},
          points_list \in HistoryLists, gameweek \in {37, 38} :
             forecast = [method |-> method,
                         players_df |-> ForecastCatalog(n, low),
                         histories |-> [player_id \in {1, 2} |->
                                           IF player_id = 1 THEN points_list ELSE <<>>],
                         weeks_remaining |-> 38 - gameweek + 1,
                         expected_points |-> None]
    /\ players_df = <<>>
    /\ expected_points = <<>>
    /\ budget = 0
    /\ opt = IdleOptimizers
    /\ last = IdleLast
    /\ sc = IdleScenario
    /\ cpv = IdleCPV
    /\ strat = IdleStrategy
    /\ tr = IdleTransfers
    /\ fixtures = IdleFixtures
    /\ results = IdleResults

NextForecast == EstimateExpectedPoints

SpecForecast == InitForecast /\ [][NextForecast]_vars

\* C24: the forecast map optimize_gameweek has computed, whatever the
\* method, has only ids of catalog players as keys, has every value >= 0, and
\* gives 0 to a player whose history is empty.
C24_ForecastMap ==
    ("expected_points" \in DOMAIN forecast /\ forecast.expected_points # None) =>
        LET m   == forecast.expected_points[1]
            ids == {forecast.players_df[r].id : r \in DOMAIN forecast.players_df}
        IN  /\ DOMAIN m \subseteq ids
            /\ \A k \in DOMAIN m : RLeq(RInt(0), m[k])
            /\ forecast.method # "hybrid" =>
                  \A player_id \in DOMAIN forecast.histories :
                      Len(forecast.histories[player_id]) = 0 => m[player_id] = RInt(0)

\* ------------------------------------------------------------------------
\* Robust mode against deterministic mode
\* ------------------------------------------------------------------------
\* the largest point total of a roster legal for object i
BestPointTotal(i) ==
    MaxOf({PointTotal(S, c) : <<S, c>> \in
              {<<S, c>> \in LegalRosters(i) \X DOMAIN players_df : c \in S}})

\* C25: when solve() of a robust optimizer whose margin is at least 0 and
\* below 1 has returned, the assignments the solver could return are exactly
\* those it could return for the same problem in deterministic mode; a roster
\* returned has the largest point total of all legal rosters, and its
\* objective_value is (1 - margin) times that total, which is the
\* objective_value of the deterministic optimizer.
C25_RobustRescaling ==
    (SolveReturned /\ opt[last.inst].robust
                   /\ opt[last.inst].uncertainty_margin >= 0
                   /\ opt[last.inst].uncertainty_margin < 100) =>
        LET i == last.inst
        IN  /\ SolverOptima(OwnTable(opt[i]), budget, opt[i], opt[i].problem[1])
                  = SolverOptima(OwnTable(opt[i]), budget,
                                 [opt[i] EXCEPT !.robust = FALSE], opt[i].problem[1])
            /\ last.ret # None =>
                  LET sol == last.ret[1]
                  IN  /\ PointTotal(sol.selected_players, sol.captain_id)
                            = BestPointTotal(i)
                      /\ sol.objective_value
                            = (100 - opt[i].uncertainty_margin) * BestPointTotal(i)
                      /\ \A j \in DOMAIN opt :
                            (~opt[j].robust /\ opt[j].solution # None) =>
                                sol.objective_value
                                  = (100 - opt[i].uncertainty_margin)
                                        * opt[j].solution[1].objective_value

\* C25 witness: both optimizers hold a roster, the robust one with margin
\* 0.2, the two rosters differ, and the robust objective_value is below the
\* deterministic one
C25_Witness ==
    /\ DOMAIN opt = {1, 2}
    /\ ~opt[1].robust
    /\ opt[2].robust
    /\ opt[2].uncertainty_margin = 20
    /\ opt[1].solution # None
    /\ opt[2].solution # None
    /\ opt[1].solution[1].selected_players # opt[2].solution[1].selected_players
    /\ opt[2].solution[1].objective_value
          < 100 * opt[1].solution[1].objective_value

\* ------------------------------------------------------------------------
\* The number and the total gain of the transfers
\* ------------------------------------------------------------------------
Least(a, b) == IF a < b THEN a ELSE b

\* sum over the positions of min(removable at it, addable at it)
PairablePlayers ==
    LET at(pos) == Least(Cardinality({o \in Removable : PositionIn(o) = pos}),
                         Cardinality({i \in Addable : PositionIn(i) = pos}))
    IN  at("GKP") + at("DEF") + at("MID") + at("FWD")

\* C26: the number of transfers suggest_transfers returned is
\* min(max_transfers, sum over positions of min(removable, addable)) when
\* max_transfers >= 0 and 0 when it is below 0; fewer transfers than
\* min(max_transfers, removable, addable) are returned only when the players
\* left over have no same-position pair.
C26_TransferCount ==
    TransfersReturned =>
        LET t == tr.result[1].transfers
            outs == {t[j].out_id : j \in DOMAIN t}
            ins  == {t[j].in_id : j \in DOMAIN t}
        IN  /\ Len(t) = IF tr.max_transfers < 0 THEN 0
                        ELSE Least(tr.max_transfers, PairablePlayers)
            /\ Len(t) < Least(tr.max_transfers,
                              Least(Cardinality(Removable), Cardinality(Addable))) =>
                  \A o \in Removable \ outs : \A i \in Addable \ ins :
                      PositionIn(o) # PositionIn(i)

\* C26 witness: one transfer returned where two were allowed and two players
\* were removable and two addable: the players left over differ in position
C26_Witness ==
    /\ TransfersReturned
    /\ tr.max_transfers >= 2
    /\ Cardinality(Removable) >= 2
    /\ Cardinality(Addable) >= 2
    /\ Len(tr.result[1].transfers) = 1

\* the sets of n same-position swaps (out removable, in addable) in which no
\* player occurs twice
DisjointSwaps(n) ==
    LET pairs == {pr \in Removable \X Addable : PositionIn(pr[1]) = PositionIn(pr[2])}
    IN  {P \in SUBSET pairs :
            /\ Cardinality(P) = n
            /\ \A a \in P : \A b \in P :
                  a # b => (a[1] # b[1] /\ a[2] # b[2])}

TotalGain(P) == Sum([x \in P |-> ScoreIn(x[2]) - ScoreIn(x[1])], P)

\* C27: the points gains of the n transfers returned add up to the largest
\* total gain of any n same-position swaps that share no player, and they are
\* listed in non-increasing order.
C27_GreedyTotal ==
    TransfersReturned =>
        LET t == tr.result[1].transfers
            returned == SeqSum([j \in DOMAIN t |-> t[j].points_gain], Len(t))
        IN  /\ \A P \in DisjointSwaps(Len(t)) : TotalGain(P) <= returned
            /\ \E P \in DisjointSwaps(Len(t)) : TotalGain(P) = returned
            /\ \A j \in 1..(Len(t) - 1) : t[j].points_gain >= t[j + 1].points_gain

\* C27 witness: two transfers returned, the second with a smaller gain than
\* the first, while another pair of swaps totals less
C27_Witness ==
    /\ TransfersReturned
    /\ Len(tr.result[1].transfers) = 2
    /\ tr.result[1].transfers[2].points_gain < tr.result[1].transfers[1].points_gain
    /\ \E P \in DisjointSwaps(2) :
          TotalGain(P) < tr.result[1].transfers[1].points_gain
                            + tr.result[1].transfers[2].points_gain

\* ------------------------------------------------------------------------
\* A solve() that fails
\* ------------------------------------------------------------------------
\* C28: a solve() that returns None leaves the solution the optimizer holds
\* exactly as it was before the call, so a roster found by an earlier solve()
\* is still held after constraints that admit no roster were added and
\* solve() was called again.
C28_FailedSolveKeepsSolution ==
    [][(last'.op = "solve" /\ last'.ret = None) =>
          \A i \in DOMAIN opt : opt'[i].solution = opt[i].solution]_vars

\* C28 witness: the last solve() returned None with player 2 both forced in
\* and forced out, and the optimizer still holds a roster
C28_Witness ==
    /\ SolveReturned
    /\ last.ret = None
    /\ opt[last.inst].solution # None
    /\ ForcedIn(last.inst) \cap ForcedOut(last.inst) # {}
    /\ LegalRosters(last.inst) = {}

\* ------------------------------------------------------------------------
\* save_gameweek_result and the results file.  results.file is the file: None
\* while it is missing, else the list under 'gameweeks'.  results.calls lists
\* the calls made, the timestamp of a call being its number.
\* ------------------------------------------------------------------------
RECURSIVE sorted(_)
\* the list left in the order update-or-append gave it
as_read(gameweeks) == gameweeks

\* sorted(list, key=lambda x: x['gameweek']): entries of equal gameweek keep
\* their order
sorted(gameweeks) ==
    IF Len(gameweeks) = 0 THEN <<>>
    ELSE LET n      == Len(gameweeks)
             x      == gameweeks[n]
             front  == sorted(SubSeq(gameweeks, 1, n - 1))
             before == SelectSeq(front, LAMBDA r : r.gameweek <= x.gameweek)
             after  == SelectSeq(front, LAMBDA r : r.gameweek > x.gameweek)
         IN  before \o <<x>> \o after

\* the update-or-append step: the first entry of the same gameweek and method
\* is replaced, else the new entry is appended
update_or_append(gameweeks, result_entry) ==
    LET same(r) == r.gameweek = result_entry.gameweek /\ r.method = result_entry.method
        existing == {i \in DOMAIN gameweeks : same(gameweeks[i])}
    IN  IF existing # {}
        THEN LET i == CHOOSE k \in existing : \A l \in existing : k <= l
             IN  [gameweeks EXCEPT ![i] = result_entry]
        ELSE Append(gameweeks, result_entry)

MaxSaves == 3
MaxGameweek == 2

\* save_gameweek_result(gameweek, method, starting_11, captain_id,
\* expected_points) with the captain among the starting 11
SaveGameweekResult(gameweek, method, xp) ==
    /\ Len(results.calls) < MaxSaves
    /\ LET read         == IF results.file = None THEN <<>> ELSE results.file[1]
           result_entry == [gameweek |-> gameweek,
                            timestamp |-> Len(results.calls) + 1,
                            method |-> method,
                            expected_points |-> xp]
       IN  results' = [file |-> Some(sorted(update_or_append(read, result_entry))),
                       calls |-> Append(results.calls, result_entry)]
    /\ UNCHANGED <<players_df, expected_points, budget, opt, last, sc, cpv, strat,
                   tr, fixtures, forecast>>

InitResults ==
    /\ results = [file |-> None, calls |-> <<>>]
    /\ players_df = <<>>
    /\ expected_points = <<>>
    /\ budget = 0
    /\ opt = IdleOptimizers
    /\ last = IdleLast
    /\ sc = IdleScenario
    /\ cpv = IdleCPV
    /\ strat = IdleStrategy
    /\ tr = IdleTransfers
    /\ fixtures = IdleFixtures
    /\ forecast = IdleForecast

NextResults ==
    \E gameweek \in 1..MaxGameweek, method \in {"hybrid", "arima"}, xp \in {48, 61} :
        SaveGameweekResult(gameweek, method, xp)

SpecResults == InitResults /\ [][NextResults]_vars

\* the most recent call for the gameweek and method of entry r
MostRecentCall(r) ==
    LET same == {k \in DOMAIN results.calls :
                    /\ results.calls[k].gameweek = r.gameweek
                    /\ results.calls[k].method = r.method}
    IN  results.calls[CHOOSE k \in same : \A l \in same : l <= k]

\* C29: after any calls of save_gameweek_result from a missing file, the
\* stored list has at most one entry per gameweek and method, that entry is
\* the one of the most recent call for the pair, every pair saved has its
\* entry, and the list is in non-decreasing order of gameweek.
C29_ResultsFile ==
    ("file" \in DOMAIN results /\ results.file # None) =>
        LET stored == results.file[1]
        IN  /\ \A i \in DOMAIN stored : \A j \in DOMAIN stored :
                  (stored[i].gameweek = stored[j].gameweek
                      /\ stored[i].method = stored[j].method) => i = j
            /\ \A i \in DOMAIN stored :
                  /\ \E k \in DOMAIN results.calls :
                        /\ results.calls[k].gameweek = stored[i].gameweek
                        /\ results.calls[k].method = stored[i].method
                  /\ stored[i] = MostRecentCall(stored[i])
            /\ \A k \in DOMAIN results.calls : \E i \in DOMAIN stored :
                  /\ stored[i].gameweek = results.calls[k].gameweek
                  /\ stored[i].method = results.calls[k].method
            /\ \A i \in 1..(Len(stored) - 1) :
                  stored[i].gameweek <= stored[i + 1].gameweek

\* C29 witness: a pair was saved twice, a later gameweek was saved before an
\* earlier one, and the file holds one entry of the pair saved twice and
\* two gameweeks
C29_Witness ==
    /\ "file" \in DOMAIN results
    /\ results.file # None
    /\ Len(results.calls) = 3
    /\ Len(results.file[1]) = 2
    /\ results.calls[1].gameweek > results.calls[2].gameweek
    /\ results.calls[3].gameweek = results.calls[1].gameweek
    /\ results.calls[3].method = results.calls[1].method
    /\ results.calls[3].expected_points # results.calls[1].expected_points

\* ------------------------------------------------------------------------
\* The range of the CPV
\* ------------------------------------------------------------------------
InUnit(x) == RLeq(RInt(0), x) /\ RLeq(x, RInt(1))

\* forecasts >= 0, difficulty in 1..5, total points >= 0, cost >= 0, ceiling
\* proxy >= 0, availability absent or in 0..100
DeclaredRanges(c) ==
    /\ \A pid \in DOMAIN c.xP : c.xP[pid] >= 0
    /\ \A team \in DOMAIN c.difficulty : c.difficulty[team] \in 1..5
    /\ \A pid \in DOMAIN c.players :
          LET player == c.players[pid]
          IN  /\ player.total_points >= 0
              /\ player.cost >= 0
              /\ RLeq(RInt(0), player.ict_index)
              /\ player.chance_of_playing_next_round # None =>
                    player.chance_of_playing_next_round[1] \in 0..100

\* C30: for inputs in the declared ranges, every sub-score calculate_all
\* computed (forecast, fixture and form, value and ceiling, status) lies in
\* [0, 1], every CPV it returned lies in [0, 80], and the CPV is the sum of
\* the first three weighted 0.40, 0.25 and 0.15, times 100, times the status:
\* the status weight 0.20 is no part of it.
C30_Range ==
    \A k \in DOMAIN cpv : \A pid \in DOMAIN cpv[k].players :
        (CalculateAllReturned(k) /\ DeclaredRanges(cpv[k])) =>
            LET c      == cpv[k]
                player == c.players[pid]
                xp     == c.result[1].xp_score[pid]
                ffi    == calculate_ffi(c, player)
                vcs    == calculate_vcs(c, player)
                sss    == calculate_sss(c, player)
                score  == c.result[1].cpv_scores[pid]
            IN  /\ InUnit(xp) /\ InUnit(ffi) /\ InUnit(vcs) /\ InUnit(sss)
                /\ RLeq(RInt(0), score)
                /\ RLeq(score, RInt(80))
                /\ score = RMul(RMul(RAdd(RAdd(RMul(Rat(40, 100), xp),
                                               RMul(Rat(25, 100), ffi)),
                                          RMul(Rat(15, 100), vcs)),
                                     RInt(100)),
                                sss)

\* C30 witness: a player with the largest forecast, the easiest fixture, form
\* above 10, value and ceiling above their caps and availability 100 has
\* been given CPV 80
C30_Witness ==
    \E k \in DOMAIN cpv : \E pid \in DOMAIN cpv[k].players :
        /\ CalculateAllReturned(k)
        /\ DeclaredRanges(cpv[k])
        /\ RLess(RInt(10), cpv[k].players[pid].form)
        /\ RLess(RInt(300), cpv[k].players[pid].ict_index)
        /\ cpv[k].result[1].cpv_scores[pid] = RInt(80)
====
